---------------------------- MODULE Spec2Model ----------------------------
(***************************************************************************)
(* Mario Kart Wii Archipelago client: the Dolphin memory interface          *)
(* (MKWii Client/dolphin_memory.py) and the client context with its poll    *)
(* loop (MKWii Client/mkwii_client.py), as a state machine.                 *)
(*                                                                         *)
(* Representation.  TLC integers are 32-bit signed, so every emulated       *)
(* address and pointer word is written relative to 0x80000000 (the start of *)
(* MEM1): the model's address a stands for 0x80000000 + a, and the heap     *)
(* floor test "ptr < 0x80000000" reads "ptr < HEAP_FLOOR" with              *)
(* HEAP_FLOOR = 0.  Python's None for an unset pointer is the sentinel      *)
(* None, which is below the floor and maps to no memory cell.               *)
(*                                                                         *)
(* asyncio tasks interleave only at their awaits.  Each action below is one *)
(* piece of a coroutine between two awaits, or a step of such a piece taken *)
(* while the task holds `running`, which keeps every other task and handler *)
(* out until the next await.                                                *)
(*                                                                         *)
(* The client calls DolphinMemoryManager.hook(); the class defines the body *)
(* under the name async_hook and nothing under the name hook.  SpecWritten  *)
(* takes the call as it is written: it raises AttributeError.  Every other  *)
(* specification takes hook to be that body run to completion.             *)
(***************************************************************************)
EXTENDS Integers, Sequences, FiniteSets, TLC

\* ------------------------------------------------------------------------
\* Bounds of the environment (what the server, the game and the user may do)
\* ------------------------------------------------------------------------

\* The server may grant the first NumItems entries of ItemPool.
NumItems == 2
\* The game may set the unlock bits of the first NumGameBits entries of GamePool.
NumGameBits == 2
\* The game may finish Grand Prix on the first NumGpCups cups.
NumGpCups == 1
\* The game may store the first NumResults entries of ResultPool.
NumResults == 1
\* Goal configurations ask for 1..MaxRequired cups.
MaxRequired == 1
\* Ids emitted more often than this are counted as this (caps the counters).
MaxCount == 2
\* An INI section body ends with up to MaxBlank blank lines.
MaxBlank == 1
\* A stored completion map has entries for the first NumGoalCups cups.
NumGoalCups == 3

\* ------------------------------------------------------------------------
\* dolphin_memory.py: constants and tables
\* ------------------------------------------------------------------------

None == -1
HEAP_FLOOR == 0
\* 0x80000000, the address of the game id
GAME_ID_ADDR == 0
\* 0x809BD748
SYSTEM_MANAGER_PTR == 10213192
\* 0x14
RAW_SAVE_OFFSET == 20
\* 0x9034
RUNTIME_UNLOCK_OFFSET == 36916
\* 0x93F0
RUNTIME_LICENSE_STRIDE == 37872
\* 0x8CC0
SAVE_LICENSE_STRIDE == 36032
\* 0x0038
SAVE_UNLOCK_START == 56
UNLOCK_BYTE_COUNT == 8
\* [0x0008, 0x8CC8, 0x11988, 0x1A648]
SAVE_LICENSE_OFFSETS == <<8, 36040, 72072, 108104>>
\* 0x1C0
GP_CUP_DATA_BASE == 448
\* 0x60
GP_CUP_SIZE == 96
GP_CC_OFFSETS == ("50cc" :> 0) @@ ("100cc" :> 768) @@ ("150cc" :> 1536) @@ ("Mirror" :> 2304)
\* offsets of the completion, trophy and rank bytes in a GP record (0x52, 0x4F, 0x51)
GP_COMPLETION_OFF == 82
GP_TROPHY_OFF == 79
GP_RANK_OFF == 81

CHARACTER_IDS ==
       ("Baby Daisy" :> <<59, 2>>)
    @@ ("Baby Luigi" :> <<59, 3>>)
    @@ ("Dry Bones" :> <<59, 0>>)
    @@ ("Bowser Jr." :> <<59, 5>>)
    @@ ("Toadette" :> <<59, 1>>)
    @@ ("King Boo" :> <<58, 1>>)
    @@ ("Dry Bowser" :> <<58, 0>>)
    @@ ("Funky Kong" :> <<58, 2>>)
    @@ ("Rosalina" :> <<58, 3>>)
    @@ ("Diddy Kong" :> <<59, 4>>)
    @@ ("Daisy" :> <<59, 6>>)
    @@ ("Birdo" :> <<59, 7>>)
    @@ ("Mii Outfit A" :> <<58, 4>>)
    @@ ("Mii Outfit B" :> <<58, 5>>)

VEHICLE_IDS ==
       ("Turbo Blooper" :> <<63, 5>>)
    @@ ("Cheep Charger" :> <<63, 2>>)
    @@ ("Royal Racer" :> <<63, 6>>)
    @@ ("Blue Falcon" :> <<63, 4>>)
    @@ ("Rally Romper" :> <<63, 3>>)
    @@ ("B. Dasher Mk 2" :> <<63, 7>>)
    @@ ("B Dasher Mk 2" :> <<63, 7>>)
    @@ ("Dragonetti" :> <<62, 2>>)
    @@ ("Aero Glider" :> <<62, 1>>)
    @@ ("Piranha Prowler" :> <<62, 0>>)
    @@ ("Magicruiser" :> <<62, 4>>)
    @@ ("Twinkle Star" :> <<61, 1>>)
    @@ ("Rapide" :> <<62, 6>>)
    @@ ("Nitrocycle" :> <<62, 7>>)
    @@ ("Quacker" :> <<62, 3>>)
    @@ ("Dolphin Dasher" :> <<61, 0>>)
    @@ ("Bubble Bike" :> <<62, 5>>)
    @@ ("Phantom" :> <<61, 3>>)
    @@ ("Torpedo" :> <<61, 2>>)

CUP_UNLOCK_IDS ==
       ("Star Cup 50cc" :> <<58, 6>>)
    @@ ("Special Cup 50cc" :> <<57, 2>>)
    @@ ("Leaf Cup 50cc" :> <<56, 2>>)
    @@ ("Lightning Cup 50cc" :> <<57, 6>>)
    @@ ("Star Cup 100cc" :> <<58, 7>>)
    @@ ("Special Cup 100cc" :> <<57, 3>>)
    @@ ("Leaf Cup 100cc" :> <<57, 7>>)
    @@ ("Lightning Cup 100cc" :> <<56, 3>>)
    @@ ("Star Cup 150cc" :> <<57, 0>>)
    @@ ("Special Cup 150cc" :> <<57, 4>>)
    @@ ("Leaf Cup 150cc" :> <<56, 0>>)
    @@ ("Lightning Cup 150cc" :> <<56, 4>>)
    @@ ("Star Cup Mirror" :> <<57, 1>>)
    @@ ("Special Cup Mirror" :> <<57, 5>>)
    @@ ("Leaf Cup Mirror" :> <<56, 1>>)
    @@ ("Lightning Cup Mirror" :> <<56, 5>>)

\* the mode table with Mirror mode on the bit of King Boo
MODE_IDS_shared ==
       ("50cc Karts/Bikes" :> <<56, 6>>)
    @@ ("100cc Karts/Bikes" :> <<56, 7>>)
    @@ ("Mirror mode" :> <<58, 1>>)

MODE_IDS ==
       ("50cc Karts/Bikes" :> <<56, 6>>)
    @@ ("100cc Karts/Bikes" :> <<56, 7>>)
    @@ ("Mirror mode" :> <<61, 4>>)

ALL_UNLOCK_IDS == CHARACTER_IDS @@ VEHICLE_IDS @@ CUP_UNLOCK_IDS @@ MODE_IDS

CUP_TROPHY_IDS ==
       ("Mushroom Cup" :> 0) @@ ("Flower Cup" :> 1) @@ ("Star Cup" :> 2)
    @@ ("Special Cup" :> 3) @@ ("Shell Cup" :> 4) @@ ("Banana Cup" :> 5)
    @@ ("Leaf Cup" :> 6) @@ ("Lightning Cup" :> 7)

VEHICLE_ALIASES ==
    { {"Turbo Blooper", "Super Blooper"}, {"Royal Racer", "Daytripper"},
      {"Rally Romper", "Tiny Titan"}, {"Magicruiser", "Magikruiser"},
      {"B. Dasher Mk 2", "B Dasher Mk 2", "Sprinter"},
      {"Dragonetti", "Honeycoupe"}, {"Aero Glider", "Jetsetter"},
      {"Twinkle Star", "Shooting Star"}, {"Rapide", "Zip Zip"},
      {"Nitrocycle", "Sneakster"}, {"Bubble Bike", "Jet Bubble"},
      {"Torpedo", "Spear"}, {"Baby Booster", "Booster Seat"},
      {"Nostalgia 1", "Classic Dragster"}, {"Concerto", "Wild Wing"},
      {"Bowser Bike", "Flame Runner"}, {"Nanobike", "Bit Bike"},
      {"Bon Bon", "Sugarscoot"} }

\* get_vehicle_alternates without the alias table: the name alone
get_vehicle_alternates_self(vehicle_name) == {vehicle_name}

get_vehicle_alternates(vehicle_name) ==
    IF \E group \in VEHICLE_ALIASES : vehicle_name \in group
    THEN CHOOSE group \in VEHICLE_ALIASES : vehicle_name \in group
    ELSE {vehicle_name}

\* self.license_idx for DolphinMemoryManager(license_num=1)
license_idx == 0

\* ------------------------------------------------------------------------
\* mkwii_client.py, worlds/mkwii/locations.py, worlds/mkwii/items.py: tables
\* ------------------------------------------------------------------------

TIER_HIERARCHY == <<"3rd_place", "2nd_place", "1st_place", "1_star", "2_star", "3_star">>
CC_NAMES == <<"50cc", "100cc", "150cc", "Mirror">>
CUPS == <<"Mushroom Cup", "Flower Cup", "Star Cup", "Special Cup",
          "Shell Cup", "Banana Cup", "Leaf Cup", "Lightning Cup">>

Range(s) == {s[i] : i \in DOMAIN s}

\* list.index(x); -1 stands for "not in the list"
IndexOf(s, x) == IF x \in Range(s) THEN (CHOOSE i \in DOMAIN s : s[i] = x) - 1 ELSE -1

\* 0x4D4B1000
BASE_LOCATION_ID == 1296764928

\* _build_location_table: ids are handed out cup by cup, class by class, tier by
\* tier; the names of the cup locations are "<cup> <cc> - <Tier Title>", kept
\* here as the triple <<cup, cc, tier>>.
location_table ==
    [n \in Range(CUPS) \X Range(CC_NAMES) \X Range(TIER_HIERARCHY) |->
        BASE_LOCATION_ID
        + (IndexOf(CUPS, n[1]) * Len(CC_NAMES) + IndexOf(CC_NAMES, n[2])) * Len(TIER_HIERARCHY)
        + IndexOf(TIER_HIERARCHY, n[3])]

\* The ids of the per-track race locations follow the cup locations
\* (8 cups x 4 tracks x 4 classes); their names end in "1st Place".
RACE_LOCATION_IDS ==
    LET first == BASE_LOCATION_ID + Len(CUPS) * Len(CC_NAMES) * Len(TIER_HIERARCHY)
    IN  first .. (first + Len(CUPS) * 4 * Len(CC_NAMES) - 1)

\* Item names, kept as <<prefix, rest>>: the name is the two strings joined.
CUP_CC_ITEMS == { <<"", c>> : c \in DOMAIN CUP_UNLOCK_IDS }
MODE_ITEMS == { <<"", "50cc Karts/Bikes">>, <<"", "100cc Karts/Bikes">> }
CHARACTER_ITEMS == { <<"Character: ", c>> : c \in DOMAIN CHARACTER_IDS }
KART_ITEMS ==
    { <<"Kart: ", v>> : v \in {"Turbo Blooper", "Cheep Charger", "Royal Racer",
        "Blue Falcon", "Rally Romper", "B. Dasher Mk 2", "Dragonetti",
        "Aero Glider", "Piranha Prowler"} }
BIKE_ITEMS ==
    { <<"Bike: ", v>> : v \in {"Magicruiser", "Twinkle Star", "Rapide",
        "Nitrocycle", "Quacker", "Dolphin Dasher", "Bubble Bike", "Phantom",
        "Torpedo"} }
FILLER_ITEMS == { <<"Filler: ", "Random Item">>, <<"Filler: ", "Mushroom">> }
TRAP_ITEMS == { <<"", "Brake Trap">>, <<"", "Gas Trap">> }
item_table ==
    CUP_CC_ITEMS \cup MODE_ITEMS \cup CHARACTER_ITEMS \cup KART_ITEMS
    \cup BIKE_ITEMS \cup FILLER_ITEMS \cup TRAP_ITEMS

\* "mirror" in item_name.lower(), over the names of item_table
HasMirror(item) == item[2] \in {"Star Cup Mirror", "Special Cup Mirror",
                                "Leaf Cup Mirror", "Lightning Cup Mirror"}

\* ------------------------------------------------------------------------
\* The environment's pools (ordered; a bound takes a prefix)
\* ------------------------------------------------------------------------

ItemPool ==
    << <<"Kart: ", "B. Dasher Mk 2">>, <<"", "Star Cup Mirror">>,
       <<"Character: ", "King Boo">>, <<"", "50cc Karts/Bikes">>,
       <<"Bike: ", "Torpedo">>, <<"Filler: ", "Random Item">>,
       <<"", "Star Cup 50cc">>, <<"", "Brake Trap">> >>

GamePool ==
    << "B Dasher Mk 2", "King Boo", "Mirror mode", "Star Cup Mirror",
       "50cc Karts/Bikes", "Dry Bowser", "Torpedo", "Star Cup 50cc" >>

\* (completion byte, trophy byte, rank byte) of a GP record
ResultPool ==
    << <<128, 0, 2>>, <<128, 0, 0>>, <<128, 128, 6>>, <<128, 64, 3>>,
       <<128, 0, 1>>, <<0, 0, 0>> >>

Prefix(s, n) == { s[i] : i \in 1 .. (IF n < Len(s) THEN n ELSE Len(s)) }

\* ------------------------------------------------------------------------
\* State
\* ------------------------------------------------------------------------

VARIABLES
    \* the emulator and the game (behind dolphin_memory_engine)
    dme_hooked,         \* dme.is_hooked(): Dolphin is up and DME is attached
    boot,               \* what the four resolver reads would find
    rtOk,               \* the manager structure (runtime unlock bytes) is mapped
    svOk,               \* the rksys buffer is mapped
    rt,                 \* runtime unlock bytes, index 0..7
    sv,                 \* rksys unlock bytes of license 0, offset 0x38..0x3F
    gp,                 \* GP records of license 0: <<cup_id, cc>> -> bytes
    \* DolphinMemoryManager
    dolphin,            \* _hooked, _manager_ptr, _runtime_base, _save_buffer_base
    \* MKWiiContext
    unlocked_characters, unlocked_karts, unlocked_bikes, unlocked_cups,
    unlocked_modes,
    completed_locations,
    location_name_to_id,    \* TRUE once _build_location_lookup has run
    fake_trophies,
    pending_location_ids,
    checked_locations,      \* CommonContext.checked_locations
    slot_data,
    goal_reached,
    loading_state,
    attempt,            \* _force_rehook's loop index
    skipped,            \* the poll loop's last top-of-cycle test saw _loading_state set
    memory_poll_task,       \* the poll task exists
    \* tasks
    pc,                 \* where each task stands
    new_locations,      \* check_locations' local list, per task
    running,            \* the task between two of its awaits, or "none"
    resolving,          \* async_resolve_pointers suspended at a sleep: its locals, per task
    \* what left the client
    sent_checks,        \* id -> number of LocationChecks messages that held it
    goal_msgs,          \* number of StatusUpdate CLIENT_GOAL messages
    log,                \* the last "Blocked vanilla unlock" names
    call                \* the last direct call and what it returned

devVars == <<dme_hooked, boot, rtOk, svOk, rt, sv, gp>>
grantVars == <<unlocked_characters, unlocked_karts, unlocked_bikes,
               unlocked_cups, unlocked_modes>>
locVars == <<completed_locations, location_name_to_id, fake_trophies,
             pending_location_ids, checked_locations, slot_data, goal_reached>>
\* the suspension flag and what goes with it
flagVars == <<loading_state, attempt, skipped>>
taskVars == <<pc, new_locations, running, memory_poll_task, flagVars>>
outVars == <<sent_checks, goal_msgs, log, call>>
vars == <<devVars, dolphin, grantVars, locVars, taskVars, outVars, resolving>>

\* ------------------------------------------------------------------------
\* Emulated memory (what dme.read_bytes / dme.write_bytes reach)
\* ------------------------------------------------------------------------

\* Where the booted game keeps its manager structure and its rksys buffer.
DevMgrPtr == 16 * 1048576
DevSavePtr == 32 * 1048576
DevRuntimeBase == DevMgrPtr + RUNTIME_UNLOCK_OFFSET
DevGpBase == DevSavePtr + SAVE_LICENSE_OFFSETS[1] + GP_CUP_DATA_BASE

GpKeys == (0 .. 7) \X Range(CC_NAMES)

\* The memory cell an address names.
CellOf(a) ==
    IF a >= DevRuntimeBase /\ a < DevRuntimeBase + UNLOCK_BYTE_COUNT
    THEN <<"rt", a - DevRuntimeBase>>
    ELSE IF a >= DevSavePtr + SAVE_UNLOCK_START
            /\ a < DevSavePtr + SAVE_UNLOCK_START + UNLOCK_BYTE_COUNT
    THEN <<"sv", a - DevSavePtr>>
    ELSE IF a >= DevGpBase /\ a < DevGpBase + 4 * 768
    THEN LET off == a - DevGpBase
             cc == CC_NAMES[(off \div 768) + 1]
             cup == (off % 768) \div GP_CUP_SIZE
             fld == off % GP_CUP_SIZE
         IN  IF fld \in {GP_COMPLETION_OFF, GP_TROPHY_OFF, GP_RANK_OFF}
             THEN <<"gp", <<cup, cc>>, fld>>
             ELSE <<"other">>
    ELSE <<"unmapped">>

\* dme.read_bytes / dme.write_bytes raise unless the address is mapped.
Mapped(a) ==
    /\ dme_hooked
    /\ CASE CellOf(a)[1] = "rt" -> rtOk
         [] CellOf(a)[1] \in {"sv", "gp", "other"} -> svOk
         [] OTHER -> FALSE

GpField(key, fld) ==
    CASE fld = GP_COMPLETION_OFF -> gp[key][1]
      [] fld = GP_TROPHY_OFF -> gp[key][2]
      [] OTHER -> gp[key][3]

\* The byte at a mapped address; mem = [rt, sv] is the unlock bytes so far.
ReadByte(mem, a) ==
    LET c == CellOf(a)
    IN  CASE c[1] = "rt" -> mem.rt[c[2]]
          [] c[1] = "sv" -> mem.sv[c[2]]
          [] c[1] = "gp" -> GpField(c[2], c[3])
          [] OTHER -> 0

WriteByte(mem, a, b) ==
    LET c == CellOf(a)
    IN  CASE c[1] = "rt" -> [mem EXCEPT !.rt[c[2]] = b]
          [] c[1] = "sv" -> [mem EXCEPT !.sv[c[2]] = b]
          [] OTHER -> mem

Pow2(n) == 2 ^ n
\* byte & (1 << bit) != 0
BitSet(byte, bit) == (byte \div Pow2(bit)) % 2 = 1
\* byte | (1 << bit)
OrBit(byte, bit) == IF BitSet(byte, bit) THEN byte ELSE byte + Pow2(bit)
\* byte & ~(1 << bit)
AndNotBit(byte, bit) == IF BitSet(byte, bit) THEN byte - Pow2(bit) ELSE byte

\* F applied to the value of v: v is evaluated once and bound, as a Python
\* local is
Strict(v, F(_)) == CHOOSE r \in { F(x) : x \in {v} } : TRUE

\* ------------------------------------------------------------------------
\* DolphinMemoryManager
\* ------------------------------------------------------------------------

\* __init__ and unhook: no attachment, no pointers
Unhooked ==
    [hooked |-> FALSE, manager_ptr |-> None, runtime_base |-> None,
     save_buffer_base |-> None]

\* is_connected with an except branch that drops the runtime pointer alone
is_connected_partial(d) ==
    IF ~d.hooked THEN [ret |-> FALSE, d |-> d]
    ELSE IF ~dme_hooked THEN [ret |-> FALSE, d |-> [d EXCEPT !.hooked = FALSE]]
    ELSE IF d.runtime_base = None
         THEN [ret |-> FALSE, d |-> [d EXCEPT !.hooked = FALSE]]
    ELSE IF Mapped(d.runtime_base) THEN [ret |-> TRUE, d |-> d]
    ELSE [ret |-> FALSE, d |-> [d EXCEPT !.hooked = FALSE, !.runtime_base = None]]

\* The is_connected property: the answer and the manager it leaves behind.
is_connected(d) ==
    IF ~d.hooked THEN [ret |-> FALSE, d |-> d]
    ELSE IF ~dme_hooked THEN [ret |-> FALSE, d |-> [d EXCEPT !.hooked = FALSE]]
    ELSE IF d.runtime_base = None
         THEN [ret |-> FALSE, d |-> [d EXCEPT !.hooked = FALSE]]
    ELSE IF Mapped(d.runtime_base) THEN [ret |-> TRUE, d |-> d]
    ELSE [ret |-> FALSE, d |-> Unhooked]

\* The staged reads of async_resolve_pointers against the booted game `b`:
\* the game id and the manager pointer lie in the static part of MEM1, which
\* is readable once the game is up; the word at manager + 0x14 and the magic
\* are readable when the pointer followed is the mapped structure.
ReadsGameId(b) == b.up
ReadsManagerPtr(b) == b.up
ReadsSavePtr(b) == b.mgr = DevMgrPtr /\ rtOk
ReadsMagic(b) == b.save = DevSavePtr /\ svOk

\* `return False` after the reads made so far: nothing is assigned
ResolveFailed(d, reads) == [ret |-> FALSE, d |-> d, reads |-> reads]

\* "All pointers valid": the four assignments
ResolveStored(b, reads) ==
    [ret |-> TRUE,
     d |-> [hooked |-> TRUE, manager_ptr |-> b.mgr, save_buffer_base |-> b.save,
            runtime_base |-> b.mgr + RUNTIME_UNLOCK_OFFSET
                             + license_idx * RUNTIME_LICENSE_STRIDE],
     reads |-> reads]

\* async_resolve_pointers without the comparison of the magic
resolve_pointers_no_magic(d, b) ==
    IF ~ReadsGameId(b) \/ b.game_id # "RMCP01"
    THEN ResolveFailed(d, <<GAME_ID_ADDR>>)
    ELSE IF ~ReadsManagerPtr(b) \/ b.mgr < HEAP_FLOOR
    THEN ResolveFailed(d, <<GAME_ID_ADDR, SYSTEM_MANAGER_PTR>>)
    ELSE IF ~ReadsSavePtr(b) \/ b.save < HEAP_FLOOR
    THEN ResolveFailed(d, <<GAME_ID_ADDR, SYSTEM_MANAGER_PTR, b.mgr + RAW_SAVE_OFFSET>>)
    ELSE IF ~ReadsMagic(b)
    THEN ResolveFailed(d, <<GAME_ID_ADDR, SYSTEM_MANAGER_PTR,
                            b.mgr + RAW_SAVE_OFFSET, b.save>>)
    ELSE ResolveStored(b, <<GAME_ID_ADDR, SYSTEM_MANAGER_PTR,
                            b.mgr + RAW_SAVE_OFFSET, b.save>>)

\* async_resolve_pointers storing the manager pointer as soon as it has passed
\* the floor test
resolve_pointers_partial(d, b) ==
    IF ~ReadsGameId(b) \/ b.game_id # "RMCP01"
    THEN ResolveFailed(d, <<GAME_ID_ADDR>>)
    ELSE IF ~ReadsManagerPtr(b) \/ b.mgr < HEAP_FLOOR
    THEN ResolveFailed(d, <<GAME_ID_ADDR, SYSTEM_MANAGER_PTR>>)
    ELSE IF ~ReadsSavePtr(b) \/ b.save < HEAP_FLOOR
    THEN ResolveFailed([d EXCEPT !.manager_ptr = b.mgr],
                       <<GAME_ID_ADDR, SYSTEM_MANAGER_PTR, b.mgr + RAW_SAVE_OFFSET>>)
    ELSE IF ~ReadsMagic(b) \/ b.magic # "RKSD"
    THEN ResolveFailed([d EXCEPT !.manager_ptr = b.mgr],
                       <<GAME_ID_ADDR, SYSTEM_MANAGER_PTR,
                         b.mgr + RAW_SAVE_OFFSET, b.save>>)
    ELSE ResolveStored(b, <<GAME_ID_ADDR, SYSTEM_MANAGER_PTR,
                            b.mgr + RAW_SAVE_OFFSET, b.save>>)

\* async_resolve_pointers, run to completion against the booted game `b` with
\* DME attached: the four staged reads, each gated on the one before, with the
\* addresses read, in order.
resolve_pointers(d, b) ==
    IF ~ReadsGameId(b) \/ b.game_id # "RMCP01"
    THEN ResolveFailed(d, <<GAME_ID_ADDR>>)
    ELSE IF ~ReadsManagerPtr(b) \/ b.mgr < HEAP_FLOOR
    THEN ResolveFailed(d, <<GAME_ID_ADDR, SYSTEM_MANAGER_PTR>>)
    ELSE IF ~ReadsSavePtr(b) \/ b.save < HEAP_FLOOR
    THEN ResolveFailed(d, <<GAME_ID_ADDR, SYSTEM_MANAGER_PTR, b.mgr + RAW_SAVE_OFFSET>>)
    ELSE IF ~ReadsMagic(b) \/ b.magic # "RKSD"
    THEN ResolveFailed(d, <<GAME_ID_ADDR, SYSTEM_MANAGER_PTR,
                            b.mgr + RAW_SAVE_OFFSET, b.save>>)
    ELSE ResolveStored(b, <<GAME_ID_ADDR, SYSTEM_MANAGER_PTR,
                            b.mgr + RAW_SAVE_OFFSET, b.save>>)

\* async_hook: attach DME if it is not, then resolve.  dme.hook() succeeds
\* exactly when Dolphin is up.  Returns the answer, the manager and DME's state.
hook(d, b, attached) ==
    IF ~(attached \/ b.up) THEN [ret |-> FALSE, d |-> d, dme |-> FALSE]
    ELSE Strict(resolve_pointers(d, b), LAMBDA r :
             [ret |-> r.ret, d |-> r.d, dme |-> TRUE])

\* async_resolve_pointers as the coroutine it is.  Between its reads it
\* sleeps five times; a frame is the sleep it is suspended at and its locals.
\* `unhooked` records that unhook() has run since the coroutine was started.
NoFrame ==
    [at |-> "none", mgr_ptr |-> None, save_ptr |-> None, magic |-> "none",
     unhooked |-> FALSE]

\* no task is inside async_resolve_pointers
NoFrames == [t \in {"poll", "rehook"} |-> NoFrame]

\* unhook() runs while the frames `fr` are suspended
Unhooking(fr) ==
    [t \in DOMAIN fr |->
        IF fr[t].at = "none" THEN fr[t] ELSE [fr[t] EXCEPT !.unhooked = TRUE]]

\* from the call to the first sleep: the game id and the manager pointer are
\* read; a failed read or a wrong id returns False, otherwise the coroutine
\* is suspended holding mgr_ptr
begin_pointers(d, b) ==
    IF ~ReadsGameId(b) \/ b.game_id # "RMCP01"
    THEN [done |-> TRUE, ret |-> FALSE, d |-> d, frame |-> NoFrame]
    ELSE IF ~ReadsManagerPtr(b)
    THEN [done |-> TRUE, ret |-> FALSE, d |-> d, frame |-> NoFrame]
    ELSE [done |-> FALSE, ret |-> FALSE, d |-> d,
          frame |-> [NoFrame EXCEPT !.at = "floor_mgr", !.mgr_ptr = b.mgr]]

\* from one sleep to the next, or to the return.  The reads go through the
\* frame's own pointers; dme.read_bytes raises when DME is detached
\* (`attached`), Dolphin is down or the structure pointed at is not mapped.
resume_pointers(d, f, b, attached) ==
    CASE f.at = "floor_mgr" ->
           IF f.mgr_ptr < HEAP_FLOOR
           THEN [done |-> TRUE, ret |-> FALSE, d |-> d, frame |-> NoFrame]
           ELSE [done |-> FALSE, ret |-> FALSE, d |-> d,
                 frame |-> [f EXCEPT !.at = "read_save"]]
      [] f.at = "read_save" ->
           IF ~(attached /\ b.up /\ f.mgr_ptr = DevMgrPtr /\ rtOk)
           THEN [done |-> TRUE, ret |-> FALSE, d |-> d, frame |-> NoFrame]
           ELSE [done |-> FALSE, ret |-> FALSE, d |-> d,
                 frame |-> [f EXCEPT !.at = "floor_save", !.save_ptr = b.save]]
      [] f.at = "floor_save" ->
           IF f.save_ptr < HEAP_FLOOR
           THEN [done |-> TRUE, ret |-> FALSE, d |-> d, frame |-> NoFrame]
           ELSE [done |-> FALSE, ret |-> FALSE, d |-> d,
                 frame |-> [f EXCEPT !.at = "read_magic"]]
      [] f.at = "read_magic" ->
           IF ~(attached /\ b.up /\ f.save_ptr = DevSavePtr /\ svOk)
           THEN [done |-> TRUE, ret |-> FALSE, d |-> d, frame |-> NoFrame]
           ELSE [done |-> FALSE, ret |-> FALSE, d |-> d,
                 frame |-> [f EXCEPT !.at = "compare", !.magic = b.magic]]
      [] OTHER ->
           IF f.magic # "RKSD"
           THEN [done |-> TRUE, ret |-> FALSE, d |-> d, frame |-> NoFrame]
           ELSE [done |-> TRUE, ret |-> TRUE,
                 d |-> [hooked |-> TRUE, manager_ptr |-> f.mgr_ptr,
                        save_buffer_base |-> f.save_ptr,
                        runtime_base |-> f.mgr_ptr + RUNTIME_UNLOCK_OFFSET
                                         + license_idx * RUNTIME_LICENSE_STRIDE],
                 frame |-> NoFrame]

runtime_addr(d, abs_offset) == d.runtime_base + (abs_offset - SAVE_UNLOCK_START)

save_addr(d, abs_offset) ==
    d.save_buffer_base + abs_offset + license_idx * SAVE_LICENSE_STRIDE

\* read_all_unlock_bytes: TRUE when the 8-byte read raises
read_all_unlock_bytes_raises(d) ==
    \E i \in 0 .. (UNLOCK_BYTE_COUNT - 1) : ~Mapped(d.runtime_base + i)

\* is_item_unlocked with the lookup's None taken for a locked entity
is_item_unlocked_absent_locked(d, mem, item_name) ==
    IF item_name \notin DOMAIN ALL_UNLOCK_IDS
    THEN [raised |-> FALSE, ret |-> FALSE, accesses |-> <<>>]
    ELSE Strict(ALL_UNLOCK_IDS[item_name], LAMBDA lookup :
         Strict(runtime_addr(d, lookup[1]), LAMBDA a :
             IF ~Mapped(a)
             THEN [raised |-> TRUE, ret |-> FALSE,
                   accesses |-> IF d.runtime_base = None THEN <<>>
                                ELSE << <<"read", "rt">> >>]
             ELSE [raised |-> FALSE, ret |-> BitSet(ReadByte(mem, a), lookup[2]),
                   accesses |-> << <<"read", "rt">> >>]))

\* is_item_unlocked; `accesses` lists the dme reads the call attempted
is_item_unlocked(d, mem, item_name) ==
    IF item_name \notin DOMAIN ALL_UNLOCK_IDS
    THEN [raised |-> FALSE, ret |-> TRUE, accesses |-> <<>>]
    ELSE Strict(ALL_UNLOCK_IDS[item_name], LAMBDA lookup :
         Strict(runtime_addr(d, lookup[1]), LAMBDA a :
             IF ~Mapped(a)
             THEN [raised |-> TRUE, ret |-> FALSE,
                   accesses |-> IF d.runtime_base = None THEN <<>>
                                ELSE << <<"read", "rt">> >>]
             ELSE [raised |-> FALSE, ret |-> BitSet(ReadByte(mem, a), lookup[2]),
                   accesses |-> << <<"read", "rt">> >>]))

\* write_unlock_bit's new byte with `value` ignored: always old | (1 << bit)
SetOrClear_sets(old, bit, value) == OrBit(old, bit)

\* write_unlock_bit's new byte as the mask itself: (1 << bit) if value else 0
SetOrClear_mask(old, bit, value) == IF value THEN Pow2(bit) ELSE 0

\* old | (1 << bit) if value else old & ~(1 << bit)
SetOrClear(old, bit, value) == IF value THEN OrBit(old, bit) ELSE AndNotBit(old, bit)

\* write_unlock_bit without its write to the rksys buffer
MirrorToSave_skipped(d, mem, abs_offset, bit, value) == mem

\* the body of the try in write_unlock_bit: the rksys byte; a failed access
\* leaves the buffer as it is
MirrorToSave(d, mem, abs_offset, bit, value) ==
    Strict(save_addr(d, abs_offset), LAMBDA sv_addr :
        IF d.save_buffer_base = None \/ ~Mapped(sv_addr) THEN mem
        ELSE WriteByte(mem, sv_addr, SetOrClear(ReadByte(mem, sv_addr), bit, value)))

\* the accesses the try block of write_unlock_bit makes to the rksys buffer:
\* the read, and the write when the read did not raise
MirrorAccesses(d, abs_offset) ==
    IF d.save_buffer_base = None THEN <<>>
    ELSE IF ~Mapped(save_addr(d, abs_offset))
    THEN << <<"read", "sv">> >>
    ELSE << <<"read", "sv">>, <<"write", "sv">> >>

\* write_unlock_bit with a failed access to the runtime byte swallowed
write_unlock_bit_best_effort(d, mem, abs_offset, bit, value) ==
    Strict(runtime_addr(d, abs_offset), LAMBDA rt_addr :
        IF ~Mapped(rt_addr)
        THEN [raised |-> FALSE, old |-> 0, new |-> 0,
              mem |-> MirrorToSave(d, mem, abs_offset, bit, value),
              accesses |-> << <<"read", "rt">> >> \o MirrorAccesses(d, abs_offset)]
        ELSE Strict(ReadByte(mem, rt_addr), LAMBDA old :
             Strict(SetOrClear(old, bit, value), LAMBDA new :
                 [raised |-> FALSE, old |-> old, new |-> new,
                  mem |-> MirrorToSave(d, WriteByte(mem, rt_addr, new),
                                       abs_offset, bit, value),
                  accesses |-> << <<"read", "rt">>, <<"write", "rt">> >>
                               \o MirrorAccesses(d, abs_offset)])))

\* write_unlock_bit: the runtime byte first; the rksys byte inside try/except.
\* `accesses` lists the dme reads and writes the call attempted, in order.
write_unlock_bit(d, mem, abs_offset, bit, value) ==
    Strict(runtime_addr(d, abs_offset), LAMBDA rt_addr :
        IF ~Mapped(rt_addr)
        THEN [raised |-> TRUE, old |-> 0, new |-> 0, mem |-> mem,
              accesses |-> IF d.runtime_base = None THEN <<>>
                           ELSE << <<"read", "rt">> >>]
        ELSE Strict(ReadByte(mem, rt_addr), LAMBDA old :
             Strict(SetOrClear(old, bit, value), LAMBDA new :
                 [raised |-> FALSE, old |-> old, new |-> new,
                  mem |-> MirrorToSave(d, WriteByte(mem, rt_addr, new),
                                       abs_offset, bit, value),
                  accesses |-> << <<"read", "rt">>, <<"write", "rt">> >>
                               \o MirrorAccesses(d, abs_offset)])))

\* `changed` reported whatever the bytes are
Changed_always(w) ==
    [raised |-> w.raised, changed |-> TRUE, mem |-> w.mem, accesses |-> w.accesses]

\* old != new, with the bytes the write left
Changed(w) ==
    [raised |-> w.raised, changed |-> w.old # w.new, mem |-> w.mem,
     accesses |-> w.accesses]

unlock_item(d, mem, item_name) ==
    IF item_name \notin DOMAIN ALL_UNLOCK_IDS
    THEN [raised |-> FALSE, changed |-> FALSE, mem |-> mem, accesses |-> <<>>]
    ELSE Strict(ALL_UNLOCK_IDS[item_name], LAMBDA lookup :
             Strict(write_unlock_bit(d, mem, lookup[1], lookup[2], TRUE), Changed))

lock_item(d, mem, item_name) ==
    IF item_name \notin DOMAIN ALL_UNLOCK_IDS
    THEN [raised |-> FALSE, changed |-> FALSE, mem |-> mem, accesses |-> <<>>]
    ELSE Strict(ALL_UNLOCK_IDS[item_name], LAMBDA lookup :
             Strict(write_unlock_bit(d, mem, lookup[1], lookup[2], FALSE), Changed))

\* unlock_mirror_mode: write_unlock_bit(0x003D, 4, value=True)
unlock_mirror_mode(d, mem) ==
    Strict(write_unlock_bit(d, mem, 61, 4, TRUE), Changed)

\* the try in lock_all_unlocks: the rksys byte is zeroed, or the failed write
\* is passed over
ZeroSave(d, mem, abs_offset) ==
    IF d.save_buffer_base = None \/ ~Mapped(save_addr(d, abs_offset)) THEN mem
    ELSE WriteByte(mem, save_addr(d, abs_offset), 0)

\* lock_all_unlocks with the rksys write outside a try: the first failed
\* write ends the call
RECURSIVE lock_all_unlocks_strict(_, _, _)
lock_all_unlocks_strict(d, mem, i) ==
    IF i >= UNLOCK_BYTE_COUNT THEN [raised |-> FALSE, mem |-> mem]
    ELSE IF d.runtime_base = None \/ ~Mapped(runtime_addr(d, SAVE_UNLOCK_START + i))
    THEN [raised |-> TRUE, mem |-> mem]
    ELSE IF d.save_buffer_base = None \/ ~Mapped(save_addr(d, SAVE_UNLOCK_START + i))
    THEN [raised |-> TRUE,
          mem |-> WriteByte(mem, runtime_addr(d, SAVE_UNLOCK_START + i), 0)]
    ELSE lock_all_unlocks_strict(d,
             ZeroSave(d, WriteByte(mem, runtime_addr(d, SAVE_UNLOCK_START + i), 0),
                      SAVE_UNLOCK_START + i),
             i + 1)

\* lock_all_unlocks, from byte i on: the runtime write is outside the try and
\* its failure ends the call
RECURSIVE lock_all_unlocks(_, _, _)
lock_all_unlocks(d, mem, i) ==
    IF i >= UNLOCK_BYTE_COUNT THEN [raised |-> FALSE, mem |-> mem]
    ELSE IF d.runtime_base = None \/ ~Mapped(runtime_addr(d, SAVE_UNLOCK_START + i))
    THEN [raised |-> TRUE, mem |-> mem]
    ELSE lock_all_unlocks(d,
             ZeroSave(d, WriteByte(mem, runtime_addr(d, SAVE_UNLOCK_START + i), 0),
                      SAVE_UNLOCK_START + i),
             i + 1)

\* _gp_cup_addr
gp_cup_addr(d, cup_id, cc) ==
    IF cc \notin DOMAIN GP_CC_OFFSETS THEN None
    ELSE d.save_buffer_base + SAVE_LICENSE_OFFSETS[license_idx + 1]
         + GP_CUP_DATA_BASE + GP_CC_OFFSETS[cc] + cup_id * GP_CUP_SIZE

TrophyOf(n) ==
    CASE n = 0 -> "gold" [] n = 1 -> "silver" [] n = 2 -> "bronze" [] OTHER -> "none"

\* the rank table with "F" for the values it does not hold
RankOf_last(n) ==
    CASE n = 0 -> "3_star" [] n = 1 -> "2_star" [] n = 2 -> "1_star"
      [] n = 3 -> "A" [] n = 4 -> "B" [] n = 5 -> "C" [] n = 6 -> "D"
      [] n = 7 -> "E" [] OTHER -> "F"

RankOf(n) ==
    CASE n = 0 -> "3_star" [] n = 1 -> "2_star" [] n = 2 -> "1_star"
      [] n = 3 -> "A" [] n = 4 -> "B" [] n = 5 -> "C" [] n = 6 -> "D"
      [] n = 7 -> "E" [] n = 8 -> "F" [] OTHER -> "D"

\* ("none", "D"): the answer for no result
Nothing == <<"none", "D">>

\* get_gp_result's try block without the test of the completion byte
ReadGpRecord_ungated(mem, addr) ==
    IF ~Mapped(addr + GP_TROPHY_OFF)
    THEN [raised |-> FALSE, ret |-> Nothing, reads |-> <<GP_TROPHY_OFF>>]
    ELSE IF ~Mapped(addr + GP_RANK_OFF)
    THEN [raised |-> FALSE, ret |-> Nothing, reads |-> <<GP_TROPHY_OFF, GP_RANK_OFF>>]
    ELSE [raised |-> FALSE,
          ret |-> << TrophyOf((ReadByte(mem, addr + GP_TROPHY_OFF) \div 64) % 4),
                     RankOf(ReadByte(mem, addr + GP_RANK_OFF) % 16) >>,
          reads |-> <<GP_TROPHY_OFF, GP_RANK_OFF>>]

\* the try block of get_gp_result at record address addr, with the record
\* offsets it read, in order
ReadGpRecord(mem, addr) ==
    IF ~Mapped(addr + GP_COMPLETION_OFF)
    THEN [raised |-> FALSE, ret |-> Nothing, reads |-> <<GP_COMPLETION_OFF>>]
    ELSE IF ~BitSet(ReadByte(mem, addr + GP_COMPLETION_OFF), 7)
    THEN [raised |-> FALSE, ret |-> Nothing, reads |-> <<GP_COMPLETION_OFF>>]
    ELSE IF ~Mapped(addr + GP_TROPHY_OFF)
    THEN [raised |-> FALSE, ret |-> Nothing,
          reads |-> <<GP_COMPLETION_OFF, GP_TROPHY_OFF>>]
    ELSE IF ~Mapped(addr + GP_RANK_OFF)
    THEN [raised |-> FALSE, ret |-> Nothing,
          reads |-> <<GP_COMPLETION_OFF, GP_TROPHY_OFF, GP_RANK_OFF>>]
    ELSE [raised |-> FALSE,
          ret |-> << TrophyOf((ReadByte(mem, addr + GP_TROPHY_OFF) \div 64) % 4),
                     RankOf(ReadByte(mem, addr + GP_RANK_OFF) % 16) >>,
          reads |-> <<GP_COMPLETION_OFF, GP_TROPHY_OFF, GP_RANK_OFF>>]

\* get_gp_result.  An unknown class returns before any read; with no rksys
\* pointer _gp_cup_addr raises outside the try.
get_gp_result(d, mem, cup_id, cc) ==
    IF cc \notin DOMAIN GP_CC_OFFSETS
    THEN [raised |-> FALSE, ret |-> Nothing, reads |-> <<>>]
    ELSE IF d.save_buffer_base = None
    THEN [raised |-> TRUE, ret |-> Nothing, reads |-> <<>>]
    ELSE Strict(gp_cup_addr(d, cup_id, cc), LAMBDA addr : ReadGpRecord(mem, addr))
\* ------------------------------------------------------------------------
\* MKWiiContext: progress tracking
\* ------------------------------------------------------------------------

TrophyVal(t) ==
    CASE t = "bronze" -> 1 [] t = "silver" -> 2 [] t = "gold" -> 3 [] OTHER -> 0

RankVal(r) ==
    CASE r = "C" -> 1 [] r = "B" -> 2 [] r = "A" -> 3 [] r = "1_star" -> 4
      [] r = "2_star" -> 5 [] r = "3_star" -> 6 [] OTHER -> 0

\* _is_real_result with the rank compared whatever the trophies are
is_real_result_any_rank(ft, cup_id, cc, trophy, rank) ==
    IF <<cup_id, cc>> \notin DOMAIN ft THEN [ret |-> TRUE, fake_trophies |-> ft]
    ELSE IF trophy = ft[<<cup_id, cc>>][1] /\ rank = ft[<<cup_id, cc>>][2]
    THEN [ret |-> FALSE, fake_trophies |-> ft]
    ELSE IF \/ TrophyVal(trophy) > TrophyVal(ft[<<cup_id, cc>>][1])
            \/ RankVal(rank) > RankVal(ft[<<cup_id, cc>>][2])
    THEN [ret |-> TRUE,
          fake_trophies |-> [k \in DOMAIN ft \ {<<cup_id, cc>>} |-> ft[k]]]
    ELSE [ret |-> FALSE, fake_trophies |-> ft]

\* _is_real_result: the answer and the baselines it leaves
is_real_result(ft, cup_id, cc, trophy, rank) ==
    LET key == <<cup_id, cc>>
    IN  IF key \notin DOMAIN ft THEN [ret |-> TRUE, fake_trophies |-> ft]
        ELSE
        LET fake_trophy == ft[key][1]
            fake_rank == ft[key][2]
        IN  IF trophy = fake_trophy /\ rank = fake_rank
            THEN [ret |-> FALSE, fake_trophies |-> ft]
            ELSE IF \/ TrophyVal(trophy) > TrophyVal(fake_trophy)
                    \/ (trophy = fake_trophy /\ RankVal(rank) > RankVal(fake_rank))
            THEN [ret |-> TRUE,
                  fake_trophies |-> [k \in DOMAIN ft \ {key} |-> ft[k]]]
            ELSE [ret |-> FALSE, fake_trophies |-> ft]

\* star_tiers with each rank giving its own tier alone
StarTiers_single(rank) ==
    IF rank \in {"1_star", "2_star", "3_star"} THEN <<rank>> ELSE <<>>

\* star_tiers.get(rank, [])
StarTiers(rank) ==
    CASE rank = "1_star" -> <<"1_star">>
      [] rank = "2_star" -> <<"1_star", "2_star">>
      [] rank = "3_star" -> <<"1_star", "2_star", "3_star">>
      [] OTHER -> <<>>

tiers_from_result(trophy, rank) ==
    IF trophy = "none" THEN <<>>
    ELSE <<"3rd_place">>
         \o (IF trophy \in {"silver", "gold"} THEN <<"2nd_place">> ELSE <<>>)
         \o (IF trophy = "gold" THEN <<"1st_place">> \o StarTiers(rank) ELSE <<>>)

CompletionKeys == Range(CUPS) \X Range(CC_NAMES)

\* _update_completion without the index comparison: the tier is stored
update_completion_overwrite(cl, cup, cc, tier) == [cl EXCEPT ![<<cup, cc>>] = tier]

\* _update_completion on the dict cl ("none": no entry)
update_completion(cl, cup, cc, tier) ==
    LET key == <<cup, cc>>
        current_idx == IndexOf(TIER_HIERARCHY, cl[key])
        new_idx == IndexOf(TIER_HIERARCHY, tier)
    IN  IF new_idx > current_idx THEN [cl EXCEPT ![key] = tier] ELSE cl

\* self.location_name_to_id.get(<<cup, cc, tier>>)
LocId(built, cup, cc, tier) ==
    IF built /\ <<cup, cc, tier>> \in DOMAIN location_table
    THEN location_table[<<cup, cc, tier>>] ELSE None

\* id_to_name.get(loc_id), then the parse of the name into cup, class and tier
\* (rsplit(" - "), rsplit(" "), TIER_NORMALIZE); <<>> when a step gives up.
ParseLocation(built, loc_id) ==
    LET n == loc_id - BASE_LOCATION_ID
        per_cup == Len(CC_NAMES) * Len(TIER_HIERARCHY)
    IN  IF ~built \/ n < 0 \/ n >= Len(CUPS) * per_cup THEN <<>>
        ELSE << CUPS[(n \div per_cup) + 1],
                CC_NAMES[((n % per_cup) \div Len(TIER_HIERARCHY)) + 1],
                TIER_HIERARCHY[(n % Len(TIER_HIERARCHY)) + 1] >>

\* the loop body of _populate_tracker_from_checked without _update_completion
PopulateOne_unseeded(cl, built, loc_id) == cl

\* _populate_tracker_from_checked: _update_completion for each checked id whose
\* name parses
PopulateOne(cl, built, loc_id) ==
    LET p == ParseLocation(built, loc_id)
    IN  IF p = <<>> THEN cl ELSE update_completion(cl, p[1], p[2], p[3])

RECURSIVE populate_tracker_from_checked(_, _, _)
populate_tracker_from_checked(cl, built, ids) ==
    IF ids = {} THEN cl
    ELSE Strict(cl, LAMBDA c :
             Strict(CHOOSE i \in ids : TRUE, LAMBDA loc_id :
                 populate_tracker_from_checked(PopulateOne(c, built, loc_id),
                                               built, ids \ {loc_id})))

\* the body of `for tier in tiers` without the test of _pending_location_ids
ScanTier_ignoring_pending(s, cup_name, cc, tier) ==
    IF \/ tier \notin Range(slot_data.enabled_cup_check_tiers)
       \/ LocId(location_name_to_id, cup_name, cc, tier) = None
       \/ LocId(location_name_to_id, cup_name, cc, tier) \in checked_locations
    THEN s
    ELSE [s EXCEPT !.new = Append(@, LocId(location_name_to_id, cup_name, cc, tier)),
                   !.pending = @ \cup {LocId(location_name_to_id, cup_name, cc, tier)},
                   !.completed = update_completion(@, cup_name, cc, tier)]

\* the body of `for tier in tiers` without `self._pending_location_ids.add`
ScanTier_unrecorded(s, cup_name, cc, tier) ==
    IF \/ tier \notin Range(slot_data.enabled_cup_check_tiers)
       \/ LocId(location_name_to_id, cup_name, cc, tier) = None
       \/ LocId(location_name_to_id, cup_name, cc, tier) \in checked_locations
       \/ LocId(location_name_to_id, cup_name, cc, tier) \in s.pending
    THEN s
    ELSE [s EXCEPT !.new = Append(@, LocId(location_name_to_id, cup_name, cc, tier)),
                   !.completed = update_completion(@, cup_name, cc, tier)]

\* the body of `for tier in tiers` with _update_completion ahead of the tests
ScanTier_eager(s, cup_name, cc, tier) ==
    IF \/ tier \notin Range(slot_data.enabled_cup_check_tiers)
       \/ LocId(location_name_to_id, cup_name, cc, tier) = None
       \/ LocId(location_name_to_id, cup_name, cc, tier) \in checked_locations
       \/ LocId(location_name_to_id, cup_name, cc, tier) \in s.pending
    THEN [s EXCEPT !.completed = update_completion(@, cup_name, cc, tier)]
    ELSE [s EXCEPT !.new = Append(@, LocId(location_name_to_id, cup_name, cc, tier)),
                   !.pending = @ \cup {LocId(location_name_to_id, cup_name, cc, tier)},
                   !.completed = update_completion(@, cup_name, cc, tier)]

\* check_locations, the body of `for tier in tiers`.
\* s = [new, pending, completed, fake]
ScanTier(s, cup_name, cc, tier) ==
    LET loc_id == LocId(location_name_to_id, cup_name, cc, tier)
    IN  IF \/ tier \notin Range(slot_data.enabled_cup_check_tiers)
           \/ loc_id = None
           \/ loc_id \in checked_locations
           \/ loc_id \in s.pending
        THEN s
        ELSE [s EXCEPT !.new = Append(@, loc_id),
                       !.pending = @ \cup {loc_id},
                       !.completed = update_completion(@, cup_name, cc, tier)]

RECURSIVE ScanTiers(_, _, _, _, _)
ScanTiers(s, cup_name, cc, tiers, i) ==
    IF i > Len(tiers) THEN s
    ELSE Strict(s, LAMBDA x :
             ScanTiers(ScanTier(x, cup_name, cc, tiers[i]), cup_name, cc, tiers, i + 1))

\* ... the body of `for cc in enabled_ccs`
ScanCc(s, d, mem, cup_name, cc) ==
    Strict(get_gp_result(d, mem, CUP_TROPHY_IDS[cup_name], cc).ret, LAMBDA res :
        Strict(is_real_result(s.fake, CUP_TROPHY_IDS[cup_name], cc, res[1], res[2]),
               LAMBDA real :
            IF real.ret
            THEN ScanTiers([s EXCEPT !.fake = real.fake_trophies], cup_name, cc,
                           tiers_from_result(res[1], res[2]), 1)
            ELSE [s EXCEPT !.fake = real.fake_trophies]))

RECURSIVE ScanCcs(_, _, _, _, _)
ScanCcs(s, d, mem, cup_name, j) ==
    IF j > Len(slot_data.enabled_ccs) THEN s
    ELSE Strict(s, LAMBDA x :
             ScanCcs(ScanCc(x, d, mem, cup_name, slot_data.enabled_ccs[j]),
                     d, mem, cup_name, j + 1))

\* ... `for cup_name, cup_id in CUP_TROPHY_IDS.items()`
RECURSIVE ScanCups(_, _, _, _)
ScanCups(s, d, mem, k) ==
    IF k > Len(CUPS) THEN s
    ELSE Strict(s, LAMBDA x :
             ScanCups(ScanCcs(x, d, mem, CUPS[k], 1), d, mem, k + 1))

\* _check_goal: the count it compares with cups_required_for_goal
GoalTier(sd) ==
    TIER_HIERARCHY[(IF sd.goal_difficulty < Len(TIER_HIERARCHY) - 1
                    THEN sd.goal_difficulty ELSE Len(TIER_HIERARCHY) - 1) + 1]

\* the progression test with its first condition alone: a cup is excluded when
\* its stored tier is not the lower tier
valid_progression_first_only(cl, cup, goal_cc) ==
    \A lower_idx \in 0 .. (IndexOf(TIER_HIERARCHY, cl[<<cup, goal_cc>>]) - 1) :
        cl[<<cup, goal_cc>>] = TIER_HIERARCHY[lower_idx + 1]

valid_progression(cl, cup, goal_cc) ==
    LET achieved_idx == IndexOf(TIER_HIERARCHY, cl[<<cup, goal_cc>>])
    IN  \A lower_idx \in 0 .. (achieved_idx - 1) :
            ~ (/\ cl[<<cup, goal_cc>>] # TIER_HIERARCHY[lower_idx + 1]
               /\ IndexOf(TIER_HIERARCHY, cl[<<cup, goal_cc>>]) < lower_idx)

goal_count(cl, sd) ==
    LET goal_cc == CC_NAMES[sd.goal_cc + 1]
        goal_idx == IndexOf(TIER_HIERARCHY, GoalTier(sd))
    IN  Cardinality({ cup \in Range(CUPS) :
            /\ cl[<<cup, goal_cc>>] \in Range(TIER_HIERARCHY)
            /\ IndexOf(TIER_HIERARCHY, cl[<<cup, goal_cc>>]) >= goal_idx
            /\ valid_progression(cl, cup, goal_cc) })

\* _check_goal without the test of goal_reached
check_goal_unlatched(reached, cl, sd) ==
    sd.present /\ goal_count(cl, sd) >= sd.cups_required_for_goal

\* _check_goal: TRUE when it sets goal_reached and sends CLIENT_GOAL
check_goal(reached, cl, sd) ==
    /\ ~reached
    /\ sd.present
    /\ goal_count(cl, sd) >= sd.cups_required_for_goal

\* ------------------------------------------------------------------------
\* MKWiiContext: grants and vanilla-unlock blocking
\* ------------------------------------------------------------------------

Mem == [rt |-> rt, sv |-> sv]

Grants ==
    [characters |-> unlocked_characters, karts |-> unlocked_karts,
     bikes |-> unlocked_bikes, cups |-> unlocked_cups, modes |-> unlocked_modes]

\* _apply_unlock
apply_unlock(d, mem, name) ==
    Strict(is_connected(d), LAMBDA ic :
        IF ~ic.ret THEN [raised |-> FALSE, d |-> ic.d, mem |-> mem]
        ELSE Strict(unlock_item(ic.d, mem, name), LAMBDA u :
                 [raised |-> u.raised, d |-> ic.d, mem |-> u.mem]))

\* the grant sets rebuilt from the item alone: what the context held is dropped
Granted_fresh(g, a) ==
    [g |-> [k \in DOMAIN g |-> g[k] \ Grants[k]], d |-> a.d, mem |-> a.mem,
     raised |-> a.raised]

\* the grant sets g with the outcome a of the memory write
Granted(g, a) == [g |-> g, d |-> a.d, mem |-> a.mem, raised |-> a.raised]

\* _process_item, the Mirror branch: after the cup's own unlock,
\* unlocked_modes.add("Mirror mode") and unlock_mirror_mode if connected
ProcessMirror(g, a) ==
    Strict(is_connected(a.d), LAMBDA ic :
        IF ~ic.ret THEN [g |-> g, d |-> ic.d, mem |-> a.mem, raised |-> FALSE]
        ELSE Strict(unlock_mirror_mode(ic.d, a.mem), LAMBDA m :
                 [g |-> g, d |-> ic.d, mem |-> m.mem, raised |-> m.raised]))

\* _process_item: the grant sets, the manager and the unlock bytes it leaves
process_item(g, d, mem, item) ==
    IF item[1] = "Character: "
    THEN Strict(apply_unlock(d, mem, item[2]), LAMBDA a :
             Granted([g EXCEPT !.characters = @ \cup {item[2]}], a))
    ELSE IF item[1] = "Kart: "
    THEN Strict(apply_unlock(d, mem, item[2]), LAMBDA a :
             Granted([g EXCEPT !.karts = @ \cup get_vehicle_alternates(item[2])], a))
    ELSE IF item[1] = "Bike: "
    THEN Strict(apply_unlock(d, mem, item[2]), LAMBDA a :
             Granted([g EXCEPT !.bikes = @ \cup get_vehicle_alternates(item[2])], a))
    ELSE IF item \in CUP_CC_ITEMS
    THEN Strict(apply_unlock(d, mem, item[2]), LAMBDA a :
             IF a.raised \/ ~HasMirror(item)
             THEN Granted([g EXCEPT !.cups = @ \cup {item[2]}], a)
             ELSE ProcessMirror([g EXCEPT !.cups = @ \cup {item[2]},
                                          !.modes = @ \cup {"Mirror mode"}], a))
    ELSE IF item \in MODE_ITEMS
    THEN Strict(apply_unlock(d, mem, item[2]), LAMBDA a :
             Granted([g EXCEPT !.modes = @ \cup {item[2]}], a))
    ELSE [g |-> g, d |-> d, mem |-> mem, raised |-> FALSE]

\* a run of unlock_item calls; the first one to raise ends it
RECURSIVE UnlockEach(_, _, _)
UnlockEach(d, mem, names) ==
    IF names = {} THEN [raised |-> FALSE, mem |-> mem]
    ELSE Strict(unlock_item(d, mem, CHOOSE x \in names : TRUE), LAMBDA u :
             IF u.raised THEN [raised |-> TRUE, mem |-> u.mem]
             ELSE UnlockEach(d, u.mem, names \ {CHOOSE x \in names : TRUE}))

\* a run of lock_item calls over the blocked names that are in ALL_UNLOCK_IDS
RECURSIVE LockEach(_, _, _)
LockEach(d, mem, names) ==
    IF names = {} THEN [raised |-> FALSE, mem |-> mem]
    ELSE Strict(lock_item(d, mem, CHOOSE x \in names : TRUE), LAMBDA l :
             IF l.raised THEN [raised |-> TRUE, mem |-> l.mem]
             ELSE LockEach(d, l.mem, names \ {CHOOSE x \in names : TRUE}))

\* _apply_all_received_items: the names its four loops unlock
GrantedNames(g) ==
    (g.characters \cap DOMAIN CHARACTER_IDS)
    \cup ((g.karts \cup g.bikes) \cap DOMAIN VEHICLE_IDS)
    \cup (g.cups \cap DOMAIN CUP_UNLOCK_IDS)
    \cup (g.modes \cap DOMAIN MODE_IDS)

\* _apply_all_received_items returning after its is_connected test
apply_all_received_items_skipped(g, d, mem) ==
    [raised |-> FALSE, d |-> is_connected(d).d, mem |-> mem]

\* _apply_all_received_items
apply_all_received_items(g, d, mem) ==
    Strict(is_connected(d), LAMBDA ic :
        IF ~ic.ret THEN [raised |-> FALSE, d |-> ic.d, mem |-> mem]
        ELSE Strict(UnlockEach(ic.d, mem, GrantedNames(g)), LAMBDA u :
            IF u.raised THEN [raised |-> TRUE, d |-> ic.d, mem |-> u.mem]
            ELSE IF \E cup \in g.cups : HasMirror(<<"", cup>>)
            THEN Strict(unlock_mirror_mode(ic.d, u.mem), LAMBDA m :
                     [raised |-> m.raised, d |-> ic.d, mem |-> m.mem])
            ELSE [raised |-> FALSE, d |-> ic.d, mem |-> u.mem]))

\* The drift scan of _block_vanilla_unlocks: the names it puts in `blocked`.
Unlocked(d, mem, name) == is_item_unlocked(d, mem, name).ret

blocked_names(g, d, mem) ==
    { name \in DOMAIN CHARACTER_IDS :
        Unlocked(d, mem, name) /\ name \notin g.characters }
    \cup { name \in DOMAIN VEHICLE_IDS :
        Unlocked(d, mem, name) /\ name \notin g.karts /\ name \notin g.bikes }
    \cup { name \in DOMAIN CUP_UNLOCK_IDS :
        Unlocked(d, mem, name) /\ name \notin g.cups }
    \cup { name \in DOMAIN MODE_IDS :
        Unlocked(d, mem, name) /\ name \notin g.modes }

\* _block_vanilla_unlocks, from `if blocked:` on: the second is_connected test
\* and the lock_item loop inside its try
LockBlocked(d, mem, blocked) ==
    Strict(is_connected(d), LAMBDA ic2 :
        IF ~ic2.ret THEN [d |-> ic2.d, mem |-> mem, log |-> blocked]
        ELSE Strict(LockEach(ic2.d, mem, blocked \cap DOMAIN ALL_UNLOCK_IDS), LAMBDA l :
                 [d |-> ic2.d, mem |-> l.mem,
                  log |-> IF l.raised THEN {} ELSE blocked]))

\* _block_vanilla_unlocks.  _grace_until stays 0.0 (nothing sets
\* _needs_post_load_grace), so the grace test never returns early.  `log` is
\* the set of names it warns about.
block_vanilla_unlocks(g, d, mem) ==
    Strict(is_connected(d), LAMBDA ic :
        IF ~ic.ret THEN [d |-> ic.d, mem |-> mem, log |-> {}]
        ELSE IF \E name \in DOMAIN ALL_UNLOCK_IDS :
                    is_item_unlocked(ic.d, mem, name).raised
        THEN [d |-> ic.d, mem |-> mem, log |-> {}]
        ELSE Strict(blocked_names(g, ic.d, mem), LAMBDA blocked :
                 IF blocked = {} THEN [d |-> ic.d, mem |-> mem, log |-> {}]
                 ELSE LockBlocked(ic.d, mem, blocked)))

\* ------------------------------------------------------------------------
\* Initial state: the context and the manager as constructed, the game booted
\* ------------------------------------------------------------------------

NoSlotData == [present |-> FALSE]
NoCall == [op |-> "none"]
\* the tasks that run check_locations, and every task
Tasks == {"poll", "manual"}
AllTasks == Tasks \cup {"rehook"}

Booted ==
    [up |-> TRUE, game_id |-> "RMCP01", mgr |-> DevMgrPtr, save |-> DevSavePtr,
     magic |-> "RKSD"]

\* The manager after a successful hook against the booted game.
Resolved ==
    [hooked |-> TRUE, manager_ptr |-> DevMgrPtr, save_buffer_base |-> DevSavePtr,
     runtime_base |-> DevRuntimeBase]

InitDevice ==
    /\ dme_hooked = FALSE
    /\ boot = Booted
    /\ rtOk = TRUE
    /\ svOk = TRUE
    /\ rt = [i \in 0 .. (UNLOCK_BYTE_COUNT - 1) |-> 0]
    /\ sv = [o \in SAVE_UNLOCK_START .. (SAVE_UNLOCK_START + UNLOCK_BYTE_COUNT - 1) |-> 0]
    /\ gp = [k \in GpKeys |-> <<0, 0, 0>>]

\* MKWiiContext.__init__, apart from the manager and the baselines
InitContext ==
    /\ unlocked_characters = {}
    /\ unlocked_karts = {}
    /\ unlocked_bikes = {}
    /\ unlocked_cups = {}
    /\ unlocked_modes = {}
    /\ completed_locations = [k \in CompletionKeys |-> "none"]
    /\ location_name_to_id = FALSE
    /\ pending_location_ids = {}
    /\ checked_locations = {}
    /\ slot_data = NoSlotData
    /\ goal_reached = FALSE
    /\ loading_state = FALSE
    /\ attempt = 0
    /\ skipped = FALSE
    /\ memory_poll_task = FALSE
    /\ pc = [t \in AllTasks |-> IF t = "poll" THEN "none" ELSE "idle"]
    /\ new_locations = [t \in Tasks |-> <<>>]
    /\ running = "none"
    /\ sent_checks = <<>>
    /\ goal_msgs = 0
    /\ log = {}
    /\ call = NoCall

InitClient ==
    /\ dolphin = Unhooked
    /\ resolving = NoFrames
    /\ fake_trophies = <<>>
    /\ InitContext

Init == InitDevice /\ InitClient

\* ------------------------------------------------------------------------
\* Inbound events (on_package)
\* ------------------------------------------------------------------------

SlotData(ccs, tiers, required, difficulty, goal_cc) ==
    [present |-> TRUE, enabled_ccs |-> ccs, enabled_cup_check_tiers |-> tiers,
     cups_required_for_goal |-> required, goal_difficulty |-> difficulty,
     goal_cc |-> goal_cc]

\* the defaults of worlds/mkwii/options.py
DefaultSlotData ==
    SlotData(<<"50cc", "100cc", "150cc">>,
             <<"3rd_place", "2nd_place", "1st_place", "1_star", "2_star">>, 6, 3, 2)

\* "Connected": slot data, the location lookup, the seeding of the tracker from
\* the confirmed ids, and the start of the poll task (which runs to its first
\* sleep).
OnConnected(sd) ==
    /\ running = "none"
    /\ ~slot_data.present \/ slot_data = sd
    /\ slot_data' = sd
    /\ location_name_to_id' = TRUE
    /\ completed_locations' =
           populate_tracker_from_checked(completed_locations, TRUE, checked_locations)
    /\ memory_poll_task' = TRUE
    /\ pc' = IF memory_poll_task THEN pc ELSE [pc EXCEPT !["poll"] = "sleep"]
    /\ UNCHANGED <<resolving, devVars, dolphin, grantVars, fake_trophies, pending_location_ids,
                   checked_locations, goal_reached, new_locations, running,
                   flagVars, outVars>>

\* "ReceivedItems" with one item
OnReceivedItems(item) ==
    /\ running = "none"
    /\ \E r \in {process_item(Grants, dolphin, Mem, item)} :
           /\ unlocked_characters' = r.g.characters
           /\ unlocked_karts' = r.g.karts
           /\ unlocked_bikes' = r.g.bikes
           /\ unlocked_cups' = r.g.cups
           /\ unlocked_modes' = r.g.modes
           /\ dolphin' = r.d
           /\ rt' = r.mem.rt
           /\ sv' = r.mem.sv
    /\ UNCHANGED <<resolving, dme_hooked, boot, rtOk, svOk, gp, locVars, taskVars, outVars>>

\* "RoomUpdate": the server confirms a batch of locations
OnRoomUpdate(ids) ==
    /\ running = "none"
    /\ ~(ids \subseteq checked_locations)
    /\ checked_locations' = checked_locations \cup ids
    /\ UNCHANGED <<resolving, devVars, dolphin, grantVars, completed_locations,
                   location_name_to_id, fake_trophies, pending_location_ids,
                   slot_data, goal_reached, taskVars, outVars>>

\* ------------------------------------------------------------------------
\* check_locations, for the poll loop and for /check
\* ------------------------------------------------------------------------

\* where a task goes when check_locations returns
Return(t) == IF t = "poll" THEN "block" ELSE "idle"
Holder(t) == IF t = "poll" THEN "poll" ELSE "none"

Count(f, x) == IF x \in DOMAIN f THEN f[x] ELSE 0
Bump(f, x) ==
    [y \in DOMAIN f \cup {x} |->
        IF y = x THEN (IF Count(f, x) < MaxCount THEN Count(f, x) + 1 ELSE MaxCount)
        ELSE f[y]]

RECURSIVE BumpAll(_, _, _)
BumpAll(f, ids, i) ==
    IF i > Len(ids) THEN f ELSE BumpAll(Bump(f, ids[i]), ids, i + 1)

\* check_locations at entry: new_locations = [] and the context's fields
ScanStart ==
    [new |-> <<>>, pending |-> pending_location_ids,
     completed |-> completed_locations, fake |-> fake_trophies]

\* from the entry to `await self.send_msgs(...)` or, with nothing new, on to
\* the clean-up
CheckScan(t) ==
    /\ pc[t] = "scan"
    /\ running = t
    /\ \E ic \in {is_connected(dolphin)} :
           /\ dolphin' = ic.d
           /\ IF ~slot_data.present \/ ~ic.ret
              THEN /\ pc' = [pc EXCEPT ![t] = Return(t)]
                   /\ running' = Holder(t)
                   /\ UNCHANGED <<new_locations, pending_location_ids,
                                  completed_locations, fake_trophies, sent_checks>>
              ELSE \E s \in {ScanCups(ScanStart, ic.d, Mem, 1)} :
                   /\ new_locations' = [new_locations EXCEPT ![t] = s.new]
                   /\ pending_location_ids' = s.pending
                   /\ completed_locations' = s.completed
                   /\ fake_trophies' = s.fake
                   /\ sent_checks' = BumpAll(sent_checks, s.new, 1)
                   /\ pc' = [pc EXCEPT ![t] =
                                 IF s.new # <<>> THEN "sending" ELSE "cleanup"]
                   /\ running' = IF s.new # <<>> THEN "none" ELSE t
    /\ UNCHANGED <<resolving, devVars, grantVars, location_name_to_id, checked_locations,
                   slot_data, goal_reached, memory_poll_task, flagVars,
                   goal_msgs, log, call>>

\* send_msgs returns
CheckSent(t) ==
    /\ pc[t] = "sending"
    /\ running = "none"
    /\ pc' = [pc EXCEPT ![t] = "cleanup"]
    /\ running' = t
    /\ UNCHANGED <<resolving, devVars, dolphin, grantVars, locVars, new_locations,
                   memory_poll_task, flagVars, outVars>>

\* the clean-up as `self._pending_location_ids.clear()`
CheckCleanup_clears(t) ==
    /\ pc[t] = "cleanup"
    /\ running = t
    /\ pending_location_ids' = {}
    /\ new_locations' = [new_locations EXCEPT ![t] = <<>>]
    /\ IF check_goal(goal_reached, completed_locations, slot_data)
       THEN /\ goal_reached' = TRUE
            /\ goal_msgs' = IF goal_msgs < MaxCount THEN goal_msgs + 1 ELSE MaxCount
            /\ pc' = [pc EXCEPT ![t] = "goal_sending"]
            /\ running' = "none"
       ELSE /\ pc' = [pc EXCEPT ![t] = Return(t)]
            /\ running' = Holder(t)
            /\ UNCHANGED <<goal_reached, goal_msgs>>
    /\ UNCHANGED <<resolving, devVars, dolphin, grantVars, completed_locations,
                   location_name_to_id, fake_trophies, checked_locations,
                   slot_data, memory_poll_task, flagVars, sent_checks, log, call>>

\* the pending clean-up and _check_goal up to its send_msgs
CheckCleanup(t) ==
    /\ pc[t] = "cleanup"
    /\ running = t
    /\ pending_location_ids' = pending_location_ids \ checked_locations
    /\ new_locations' = [new_locations EXCEPT ![t] = <<>>]
    /\ IF check_goal(goal_reached, completed_locations, slot_data)
       THEN /\ goal_reached' = TRUE
            /\ goal_msgs' = IF goal_msgs < MaxCount THEN goal_msgs + 1 ELSE MaxCount
            /\ pc' = [pc EXCEPT ![t] = "goal_sending"]
            /\ running' = "none"
       ELSE /\ pc' = [pc EXCEPT ![t] = Return(t)]
            /\ running' = Holder(t)
            /\ UNCHANGED <<goal_reached, goal_msgs>>
    /\ UNCHANGED <<resolving, devVars, dolphin, grantVars, completed_locations,
                   location_name_to_id, fake_trophies, checked_locations,
                   slot_data, memory_poll_task, flagVars, sent_checks, log, call>>

\* the StatusUpdate send returns
CheckGoalSent(t) ==
    /\ pc[t] = "goal_sending"
    /\ running = "none"
    /\ pc' = [pc EXCEPT ![t] = Return(t)]
    /\ running' = Holder(t)
    /\ UNCHANGED <<resolving, devVars, dolphin, grantVars, locVars, new_locations,
                   memory_poll_task, flagVars, outVars>>

\* /check: asyncio.create_task(self.ctx.check_locations()), and the task gets
\* to run
CmdCheck ==
    /\ pc["manual"] = "idle"
    /\ running = "none"
    /\ pc' = [pc EXCEPT !["manual"] = "scan"]
    /\ running' = "manual"
    /\ UNCHANGED <<resolving, devVars, dolphin, grantVars, locVars, new_locations,
                   memory_poll_task, flagVars, outVars>>

\* ------------------------------------------------------------------------
\* _poll_dolphin
\* ------------------------------------------------------------------------

\* `if self._loading_state: continue` without the test
suspended_never(flag) == FALSE

\* `if self._loading_state: continue`: the cycle is skipped
suspended(flag) == flag

\* the 0.5 s sleep ends and _loading_state is tested: set, the loop goes back
\* to its sleep; clear, the cycle starts
PollWake ==
    /\ pc["poll"] = "sleep"
    /\ running = "none"
    /\ skipped' = suspended(loading_state)
    /\ IF suspended(loading_state)
       THEN UNCHANGED <<pc, running>>
       ELSE /\ pc' = [pc EXCEPT !["poll"] = "connect"]
            /\ running' = "poll"
    /\ UNCHANGED <<resolving, devVars, dolphin, grantVars, locVars, new_locations,
                   memory_poll_task, loading_state, attempt, outVars>>

\* the handlers in the loop with every exception ending the loop
poll_except_break(exc) == "done"

\* the handlers in the loop with the failed probe falling through to the scan
poll_except_falls_through(exc) == IF exc = "CancelledError" THEN "done" ELSE "scan"

\* the handlers in the loop: CancelledError breaks out of it; any other
\* exception (the failed probe in the inner try, the rest in the outer one) is
\* logged, and the loop goes on from its sleep
poll_except(exc) == IF exc = "CancelledError" THEN "done" ELSE "sleep"

\* where a task calls hook()
HookSite(t) == IF t = "poll" THEN "connect" ELSE "attempt"

\* hook() is about to attach DME: DME is not attached and Dolphin is up
AttachesDme(t) ==
    /\ pc[t] = HookSite(t)
    /\ running = t
    /\ t = "poll" => ~is_connected(dolphin).ret
    /\ ~dme_hooked
    /\ boot.up

\* async_hook, `if not dme.is_hooked(): dme.hook()`, with Dolphin up: DME
\* attaches, and the task goes on to the rest of hook() in its next step
\* without having given up control
DmeHook(t) ==
    /\ AttachesDme(t)
    /\ dme_hooked' = TRUE
    /\ dolphin' = IF t = "poll" THEN is_connected(dolphin).d ELSE dolphin
    /\ UNCHANGED <<resolving, boot, rtOk, svOk, rt, sv, gp, grantVars, locVars, taskVars,
                   outVars>>

\* `if not is_connected: if not await _try_hook_dolphin(): sleep(2); continue`
PollConnect ==
    /\ pc["poll"] = "connect"
    /\ running = "poll"
    /\ ~AttachesDme("poll")
    /\ \E ic \in {is_connected(dolphin)} :
           IF ic.ret
           THEN /\ dolphin' = ic.d
                /\ pc' = [pc EXCEPT !["poll"] = "probe"]
                /\ UNCHANGED <<running, dme_hooked, rt, sv>>
           ELSE \E h \in {hook(ic.d, boot, dme_hooked)} :
                /\ dme_hooked' = h.dme
                /\ IF ~h.ret
                   THEN /\ dolphin' = h.d
                        /\ pc' = [pc EXCEPT !["poll"] = "sleep"]
                        /\ running' = "none"
                        /\ UNCHANGED <<rt, sv>>
                   ELSE \E a \in {apply_all_received_items(Grants, h.d, Mem)} :
                        /\ dolphin' = a.d
                        /\ rt' = a.mem.rt
                        /\ sv' = a.mem.sv
                        /\ pc' = [pc EXCEPT !["poll"] =
                                      IF a.raised THEN poll_except("Exception")
                                      ELSE "probe"]
                        /\ running' = IF a.raised THEN "none" ELSE "poll"
    /\ UNCHANGED <<resolving, boot, rtOk, svOk, gp, grantVars, locVars, new_locations,
                   memory_poll_task, flagVars, outVars>>

\* "Verify memory is still readable": read_all_unlock_bytes, unhook on failure
PollProbe ==
    /\ pc["poll"] = "probe"
    /\ running = "poll"
    /\ IF read_all_unlock_bytes_raises(dolphin)
       THEN /\ dolphin' = Unhooked
            /\ dme_hooked' = FALSE
            /\ pc' = [pc EXCEPT !["poll"] = poll_except("RuntimeError")]
            /\ running' = "none"
       ELSE /\ pc' = [pc EXCEPT !["poll"] = "scan"]
            /\ UNCHANGED <<dolphin, dme_hooked, running>>
    /\ resolving' = Unhooking(resolving)
    /\ UNCHANGED <<boot, rtOk, svOk, rt, sv, gp, grantVars, locVars,
                   new_locations, memory_poll_task, flagVars, outVars>>

\* _block_vanilla_unlocks, then the top of the loop up to its sleep
PollBlock ==
    /\ pc["poll"] = "block"
    /\ running = "poll"
    /\ \E b \in {block_vanilla_unlocks(Grants, dolphin, Mem)} :
           /\ dolphin' = b.d
           /\ rt' = b.mem.rt
           /\ sv' = b.mem.sv
           /\ log' = b.log
    /\ pc' = [pc EXCEPT !["poll"] = "sleep"]
    /\ running' = "none"
    /\ UNCHANGED <<resolving, dme_hooked, boot, rtOk, svOk, gp, grantVars, locVars,
                   new_locations, memory_poll_task, flagVars, sent_checks,
                   goal_msgs, call>>

\* ------------------------------------------------------------------------
\* The game and the emulator
\* ------------------------------------------------------------------------

\* the game derives an unlock from its own completion data
GameSetRuntimeBit(name) ==
    /\ running = "none"
    /\ ~BitSet(rt[ALL_UNLOCK_IDS[name][1] - SAVE_UNLOCK_START], ALL_UNLOCK_IDS[name][2])
    /\ rt' = [rt EXCEPT ![ALL_UNLOCK_IDS[name][1] - SAVE_UNLOCK_START] =
                 OrBit(@, ALL_UNLOCK_IDS[name][2])]
    /\ UNCHANGED <<resolving, dme_hooked, boot, rtOk, svOk, sv, gp, dolphin, grantVars,
                   locVars, taskVars, outVars>>

\* the game writes an unlock into its save buffer
GameSetSaveBit(name) ==
    /\ running = "none"
    /\ ~BitSet(sv[ALL_UNLOCK_IDS[name][1]], ALL_UNLOCK_IDS[name][2])
    /\ sv' = [sv EXCEPT ![ALL_UNLOCK_IDS[name][1]] = OrBit(@, ALL_UNLOCK_IDS[name][2])]
    /\ UNCHANGED <<resolving, dme_hooked, boot, rtOk, svOk, rt, gp, dolphin, grantVars,
                   locVars, taskVars, outVars>>

\* the manager structure or the rksys buffer is unmapped or mapped again
MemoryRemap(r, s) ==
    /\ running = "none"
    /\ <<r, s>> # <<rtOk, svOk>>
    /\ rtOk' = r
    /\ svOk' = s
    /\ UNCHANGED <<resolving, dme_hooked, boot, rt, sv, gp, dolphin, grantVars, locVars,
                   taskVars, outVars>>

\* the game stores the result of a finished Grand Prix
GameFinishGP(cup_id, cc, bytes) ==
    /\ running = "none"
    /\ gp[<<cup_id, cc>>] # bytes
    /\ gp' = [gp EXCEPT ![<<cup_id, cc>>] = bytes]
    /\ UNCHANGED <<resolving, dme_hooked, boot, rtOk, svOk, rt, sv, dolphin, grantVars,
                   locVars, taskVars, outVars>>


\* the poll task is cancelled while it waits (the event loop shuts down)
PollCancel ==
    /\ pc["poll"] \in {"sleep", "sending", "goal_sending"}
    /\ running = "none"
    /\ pc' = [pc EXCEPT !["poll"] = poll_except("CancelledError")]
    /\ UNCHANGED <<resolving, devVars, dolphin, grantVars, locVars, new_locations, running,
                   memory_poll_task, flagVars, outVars>>

\* Dolphin is closed: DME is detached and nothing is mapped
DolphinExit ==
    /\ running = "none"
    /\ dme_hooked
    /\ dme_hooked' = FALSE
    /\ boot' = [boot EXCEPT !.up = FALSE]
    /\ UNCHANGED <<resolving, rtOk, svOk, rt, sv, gp, dolphin, grantVars, locVars, taskVars,
                   outVars>>

\* Dolphin is closed, and the record of it: whether the manager was attached
DolphinClosed ==
    /\ running = "none"
    /\ dme_hooked
    /\ dme_hooked' = FALSE
    /\ boot' = [boot EXCEPT !.up = FALSE]
    /\ call' = [op |-> "dolphin_exit", hooked |-> dolphin.hooked]
    /\ UNCHANGED <<resolving, rtOk, svOk, rt, sv, gp, dolphin, grantVars, locVars, taskVars,
                   sent_checks, goal_msgs, log>>

\* the emulator is a process of its own: it maps or unmaps the game's memory
\* between two reads of one poll cycle, which is what the probe after
\* is_connected is there to catch
MemoryRace(r, s) ==
    /\ running = "poll"
    /\ <<r, s>> # <<rtOk, svOk>>
    /\ rtOk' = r
    /\ svOk' = s
    /\ UNCHANGED <<resolving, dme_hooked, boot, rt, sv, gp, dolphin, grantVars, locVars,
                   taskVars, outVars>>

\* the game restarts, or gets further in its boot
GameBoot(b) ==
    /\ running = "none"
    /\ boot # b
    /\ boot' = b
    /\ UNCHANGED <<resolving, dme_hooked, rtOk, svOk, rt, sv, gp, dolphin, grantVars, locVars,
                   taskVars, outVars>>

\* ------------------------------------------------------------------------
\* /hook: _cmd_hook and _force_rehook
\* ------------------------------------------------------------------------

\* range(30)
HOOK_ATTEMPTS == 30

\* _cmd_hook: unhook(), then asyncio.create_task(ctx._force_rehook())
CmdHook ==
    /\ pc["rehook"] = "idle"
    /\ running = "none"
    /\ dolphin' = Unhooked
    /\ dme_hooked' = FALSE
    /\ pc' = [pc EXCEPT !["rehook"] = "start"]
    /\ resolving' = Unhooking(resolving)
    /\ UNCHANGED <<boot, rtOk, svOk, rt, sv, gp, grantVars, locVars, new_locations,
                   running, memory_poll_task, flagVars, outVars>>

\* the task gets to run: self._loading_state = True
RehookStart ==
    /\ pc["rehook"] = "start"
    /\ running = "none"
    /\ loading_state' = TRUE
    /\ attempt' = 0
    /\ pc' = [pc EXCEPT !["rehook"] = "focus"]
    /\ running' = "rehook"
    /\ UNCHANGED <<resolving, devVars, dolphin, grantVars, locVars, new_locations,
                   memory_poll_task, skipped, outVars>>

\* `if not self.dolphin._hooked: ... self.dolphin_mgr.focus_game_window()`,
\* before the try: the call returns, or it raises and the task ends there
RehookFocus(raises) ==
    /\ pc["rehook"] = "focus"
    /\ running = "rehook"
    /\ raises => ~dolphin.hooked
    /\ pc' = [pc EXCEPT !["rehook"] = IF raises THEN "idle" ELSE "attempt"]
    /\ running' = IF raises THEN "none" ELSE "rehook"
    /\ UNCHANGED <<resolving, devVars, dolphin, grantVars, locVars, new_locations,
                   memory_poll_task, flagVars, outVars>>

\* one pass of the loop in the try: hook(); on success
\* _apply_all_received_items and return, on failure the 1 s sleep.  The
\* finally clears _loading_state on the return and on an exception.
RehookAttempt ==
    /\ pc["rehook"] = "attempt"
    /\ running = "rehook"
    /\ ~AttachesDme("rehook")
    /\ \E h \in {hook(dolphin, boot, dme_hooked)} :
           /\ dme_hooked' = h.dme
           /\ IF ~h.ret
              THEN /\ dolphin' = h.d
                   /\ pc' = [pc EXCEPT !["rehook"] = "wait"]
                   /\ UNCHANGED <<rt, sv, loading_state, attempt>>
              ELSE \E a \in {apply_all_received_items(Grants, h.d, Mem)} :
                   /\ dolphin' = a.d
                   /\ rt' = a.mem.rt
                   /\ sv' = a.mem.sv
                   /\ loading_state' = FALSE
                   /\ attempt' = 0
                   /\ pc' = [pc EXCEPT !["rehook"] = "idle"]
    /\ running' = "none"
    /\ UNCHANGED <<resolving, boot, rtOk, svOk, gp, grantVars, locVars, new_locations,
                   memory_poll_task, skipped, outVars>>

\* the loop of _force_rehook as `while True`: the sleep always leads to
\* another pass
RehookWake_unbounded ==
    /\ pc["rehook"] = "wait"
    /\ running = "none"
    /\ attempt' = IF attempt + 1 < HOOK_ATTEMPTS THEN attempt + 1 ELSE attempt
    /\ pc' = [pc EXCEPT !["rehook"] = "attempt"]
    /\ running' = "rehook"
    /\ UNCHANGED <<resolving, devVars, dolphin, grantVars, locVars, new_locations,
                   memory_poll_task, loading_state, skipped, outVars>>

\* the 1 s sleep ends: the next pass, or after the last one the warning and
\* the finally
RehookWake ==
    /\ pc["rehook"] = "wait"
    /\ running = "none"
    /\ IF attempt + 1 < HOOK_ATTEMPTS
       THEN /\ attempt' = attempt + 1
            /\ pc' = [pc EXCEPT !["rehook"] = "attempt"]
            /\ running' = "rehook"
            /\ UNCHANGED loading_state
       ELSE /\ attempt' = 0
            /\ loading_state' = FALSE
            /\ pc' = [pc EXCEPT !["rehook"] = "idle"]
            /\ UNCHANGED running
    /\ UNCHANGED <<resolving, devVars, dolphin, grantVars, locVars, new_locations,
                   memory_poll_task, skipped, outVars>>

\* ------------------------------------------------------------------------
\* The calls of hook() as they are written
\* ------------------------------------------------------------------------

\* `if not is_connected: if not await _try_hook_dolphin()` with
\* self.dolphin.hook() raising AttributeError: the outer handler of the loop
\* logs it and sleeps
PollConnectWritten ==
    /\ pc["poll"] = "connect"
    /\ running = "poll"
    /\ \E ic \in {is_connected(dolphin)} :
           /\ dolphin' = ic.d
           /\ pc' = [pc EXCEPT !["poll"] =
                         IF ic.ret THEN "probe" ELSE poll_except("AttributeError")]
           /\ running' = IF ic.ret THEN "poll" ELSE "none"
           /\ call' = IF ic.ret THEN call
                      ELSE [op |-> "hook", task |-> "poll", raised |-> "AttributeError"]
    /\ UNCHANGED <<resolving, devVars, grantVars, locVars, new_locations, memory_poll_task,
                   flagVars, sent_checks, goal_msgs, log>>

\* the first pass of _force_rehook's loop with self.dolphin.hook() raising
\* AttributeError: the finally clears _loading_state and the task ends
RehookAttemptWritten ==
    /\ pc["rehook"] = "attempt"
    /\ running = "rehook"
    /\ loading_state' = FALSE
    /\ attempt' = 0
    /\ pc' = [pc EXCEPT !["rehook"] = "idle"]
    /\ running' = "none"
    /\ call' = [op |-> "hook", task |-> "rehook", raised |-> "AttributeError"]
    /\ UNCHANGED <<resolving, devVars, dolphin, grantVars, locVars, new_locations,
                   memory_poll_task, skipped, sent_checks, goal_msgs, log>>

\* ------------------------------------------------------------------------
\* Readers of is_connected outside the poll loop
\* ------------------------------------------------------------------------

\* LocationTrackerWindow._schedule_update, every 500 ms on the tracker's own
\* thread (started by launch_tracker at the end of the Connected handler):
\* it reads ctx.dolphin.is_connected whatever the event loop is running
TrackerUpdate ==
    /\ location_name_to_id
    /\ \E ic \in {is_connected(dolphin)} : dolphin' = ic.d
    /\ UNCHANGED <<resolving, devVars, grantVars, locVars, taskVars, outVars>>

\* /status: _cmd_status reads ctx.dolphin.is_connected
CmdStatus ==
    /\ running = "none"
    /\ \E ic \in {is_connected(dolphin)} : dolphin' = ic.d
    /\ UNCHANGED <<resolving, devVars, grantVars, locVars, taskVars, outVars>>

\* ------------------------------------------------------------------------
\* A LocationChecks send that fails
\* ------------------------------------------------------------------------

\* send_msgs raises (the connection closed under it): the exception leaves
\* check_locations before the clean-up; the poll loop logs it and sleeps, a
\* /check task ends with it
CheckSendFails(t) ==
    /\ pc[t] = "sending"
    /\ running = "none"
    /\ pc' = [pc EXCEPT ![t] = IF t = "poll" THEN poll_except("Exception") ELSE "idle"]
    /\ new_locations' = [new_locations EXCEPT ![t] = <<>>]
    /\ call' = [op |-> "send_msgs", task |-> t, raised |-> TRUE,
                locations |-> new_locations[t]]
    /\ UNCHANGED <<resolving, devVars, dolphin, grantVars, locVars, running, memory_poll_task,
                   flagVars, sent_checks, goal_msgs, log>>

\* ------------------------------------------------------------------------
\* hook() awaited: async_resolve_pointers gives up control at its sleeps
\* ------------------------------------------------------------------------

\* what the caller does with the answer `ret` of hook(): _try_hook_dolphin
\* and the poll loop (mkwii_client.py 313-341), or the pass of _force_rehook
HookReturned(t, ret, d) ==
    IF ~ret
    THEN /\ dolphin' = d
         /\ pc' = [pc EXCEPT ![t] = IF t = "poll" THEN "sleep" ELSE "wait"]
         /\ running' = "none"
         /\ UNCHANGED <<rt, sv, loading_state, attempt>>
    ELSE \E a \in {apply_all_received_items(Grants, d, Mem)} :
         /\ dolphin' = a.d
         /\ rt' = a.mem.rt
         /\ sv' = a.mem.sv
         /\ IF t = "poll"
            THEN /\ pc' = [pc EXCEPT ![t] = IF a.raised THEN poll_except("Exception")
                                           ELSE "probe"]
                 /\ running' = IF a.raised THEN "none" ELSE "poll"
                 /\ UNCHANGED <<loading_state, attempt>>
            ELSE /\ loading_state' = FALSE
                 /\ attempt' = 0
                 /\ pc' = [pc EXCEPT ![t] = "idle"]
                 /\ running' = "none"

\* the task calls hook() with DME attached or Dolphin down: up to the first
\* sleep of async_resolve_pointers, or to the return where it fails before
HookBegin(t) ==
    /\ pc[t] = HookSite(t)
    /\ running = t
    /\ ~AttachesDme(t)
    /\ t = "poll" => ~is_connected(dolphin).ret
    /\ \E d \in {IF t = "poll" THEN is_connected(dolphin).d ELSE dolphin} :
           IF ~dme_hooked
           THEN /\ HookReturned(t, FALSE, d)
                /\ call' = [op |-> "hook", task |-> t, ret |-> FALSE, unhooked |-> FALSE]
                /\ UNCHANGED resolving
           ELSE \E r \in {begin_pointers(d, boot)} :
                IF r.done
                THEN /\ HookReturned(t, r.ret, r.d)
                     /\ call' = [op |-> "hook", task |-> t, ret |-> r.ret,
                                 unhooked |-> FALSE]
                     /\ UNCHANGED resolving
                ELSE /\ resolving' = [resolving EXCEPT ![t] = r.frame]
                     /\ dolphin' = r.d
                     /\ pc' = [pc EXCEPT ![t] = "resolve"]
                     /\ running' = "none"
                     /\ UNCHANGED <<rt, sv, loading_state, attempt, call>>
    /\ UNCHANGED <<dme_hooked, boot, rtOk, svOk, gp, grantVars, locVars,
                   new_locations, memory_poll_task, skipped, sent_checks,
                   goal_msgs, log>>

\* one of the sleeps of async_resolve_pointers is over: on to the next sleep,
\* or to the return and what the caller does with it
HookResume(t) ==
    /\ pc[t] = "resolve"
    /\ running = "none"
    /\ \E r \in {resume_pointers(dolphin, resolving[t], boot, dme_hooked)} :
           IF r.done
           THEN /\ resolving' = [resolving EXCEPT ![t] = NoFrame]
                /\ HookReturned(t, r.ret, r.d)
                /\ call' = [op |-> "hook", task |-> t, ret |-> r.ret,
                            unhooked |-> resolving[t].unhooked]
           ELSE /\ resolving' = [resolving EXCEPT ![t] = r.frame]
                /\ UNCHANGED <<dolphin, pc, running, rt, sv, loading_state,
                               attempt, call>>
    /\ UNCHANGED <<dme_hooked, boot, rtOk, svOk, gp, grantVars, locVars,
                   new_locations, memory_poll_task, skipped, sent_checks,
                   goal_msgs, log>>
\* ------------------------------------------------------------------------
\* Specifications
\* ------------------------------------------------------------------------

\* <<goal_difficulty, goal_cc>>: the defaults; a goal tier that is not among the
\* monitored tiers; a goal class that is not among the monitored classes
GoalPool == { <<3, 2>>, <<5, 2>>, <<3, 3>> }

Configs ==
    { SlotData(DefaultSlotData.enabled_ccs, DefaultSlotData.enabled_cup_check_tiers,
               required, g[1], g[2]) :
        required \in 1 .. MaxRequired, g \in GoalPool }

\* the class the game is played on: the slot's goal class
GameCc == CC_NAMES[slot_data.goal_cc + 1]

\* ids the server may confirm on its own (another client of the same slot)
ExternalIds == { location_table[<<"Mushroom Cup", "150cc", "1_star">>] }

\* Progress tracking: the poll loop and /check against a game that finishes
\* Grand Prix, and a server that confirms.
Next ==
    \/ \E sd \in Configs : OnConnected(sd)
    \/ \E ids \in {pending_location_ids, ExternalIds} : OnRoomUpdate(ids)
    \/ CmdCheck
    \/ \E t \in Tasks : CheckScan(t)
    \/ \E t \in Tasks : CheckSent(t)
    \/ \E t \in Tasks : CheckCleanup(t)
    \/ \E t \in Tasks : CheckGoalSent(t)
    \/ PollWake
    \/ PollConnect
    \/ DmeHook("poll")
    \/ PollProbe
    \/ PollBlock
    \/ \E cup_id \in 0 .. (NumGpCups - 1), bytes \in Prefix(ResultPool, NumResults) :
           slot_data.present /\ GameFinishGP(cup_id, GameCc, bytes)

Spec == Init /\ [][Next]_vars

\* Unlock enforcement: the poll loop against grants from the server, a game
\* that sets unlock bits on its own, and memory that comes and goes.
NextUnlock ==
    \/ OnConnected(DefaultSlotData)
    \/ \E item \in Prefix(ItemPool, NumItems) : OnReceivedItems(item)
    \/ PollWake
    \/ PollConnect
    \/ DmeHook("poll")
    \/ PollProbe
    \/ CheckScan("poll")
    \/ CheckCleanup("poll")
    \/ PollBlock
    \/ \E name \in Prefix(GamePool, NumGameBits) : GameSetRuntimeBit(name)
    \/ \E name \in Prefix(GamePool, NumGameBits) : GameSetSaveBit(name)
    \/ \E r, s \in BOOLEAN : MemoryRemap(r, s)

SpecUnlock == Init /\ [][NextUnlock]_vars


\* what the game shows while it boots: up with its save loaded, not up, up with
\* the save buffer not loaded yet
BootStages ==
    {Booted, [Booted EXCEPT !.up = FALSE], [Booted EXCEPT !.magic = "none"]}

\* Attachment: the poll loop and /hook against a game that restarts and memory
\* that comes and goes.
NextAttach ==
    \/ OnConnected(DefaultSlotData)
    \/ PollWake
    \/ PollConnect
    \/ \E t \in {"poll", "rehook"} : DmeHook(t)
    \/ PollProbe
    \/ CheckScan("poll")
    \/ CheckCleanup("poll")
    \/ PollBlock
    \/ PollCancel
    \/ CmdHook
    \/ RehookStart
    \/ \E raises \in BOOLEAN : RehookFocus(raises)
    \/ RehookAttempt
    \/ RehookWake
    \/ \E b \in BootStages : GameBoot(b)
    \/ DolphinExit
    \/ \E r, s \in BOOLEAN : MemoryRemap(r, s)
    \/ \E r, s \in BOOLEAN : MemoryRace(r, s)

SpecAttach == Init /\ [][NextAttach]_vars

\* the steps a task takes while it holds the event loop
PollRuns ==
    \/ PollConnect
    \/ DmeHook("poll")
    \/ PollProbe
    \/ CheckScan("poll")
    \/ CheckCleanup("poll")
    \/ PollBlock

RehookRuns ==
    \/ \E raises \in BOOLEAN : RehookFocus(raises)
    \/ DmeHook("rehook")
    \/ RehookAttempt

\* The attachment under asyncio's scheduling: a task that holds the event
\* loop goes on to its next await, and a task that is ready again and again
\* (created, or with its sleep over) gets to run.
FairAttach ==
    /\ SpecAttach
    /\ WF_vars(PollRuns)
    /\ WF_vars(RehookRuns)
    /\ SF_vars(RehookStart)
    /\ SF_vars(RehookWake)

\* Grants: the server's items against the poll loop, /hook and memory that
\* comes and goes.
NextGrant ==
    \/ OnConnected(DefaultSlotData)
    \/ \E item \in Prefix(ItemPool, NumItems) : OnReceivedItems(item)
    \/ PollWake
    \/ PollConnect
    \/ \E t \in {"poll", "rehook"} : DmeHook(t)
    \/ PollProbe
    \/ CheckScan("poll")
    \/ CheckCleanup("poll")
    \/ PollBlock
    \/ CmdHook
    \/ RehookStart
    \/ \E raises \in BOOLEAN : RehookFocus(raises)
    \/ RehookAttempt
    \/ RehookWake
    \/ DolphinExit
    \/ \E r, s \in BOOLEAN : MemoryRemap(r, s)

SpecGrant == Init /\ [][NextGrant]_vars

\* The attachment with hook() as written: the poll loop and /hook against a
\* game that boots and memory that comes and goes.  The loop's steps are
\* taken whenever they stay possible (the event loop runs every task that is
\* ready, and a sleep ends).
NextWritten ==
    \/ OnConnected(DefaultSlotData)
    \/ PollWake
    \/ PollConnectWritten
    \/ PollCancel
    \/ CmdHook
    \/ RehookStart
    \/ \E raises \in BOOLEAN : RehookFocus(raises)
    \/ RehookAttemptWritten
    \/ \E b \in BootStages : GameBoot(b)
    \/ \E r, s \in BOOLEAN : MemoryRemap(r, s)

SpecWritten ==
    /\ Init
    /\ [][NextWritten]_vars
    /\ WF_vars(PollWake)
    /\ WF_vars(PollConnectWritten)

\* The attachment with the readers of is_connected that are not the poll
\* loop: the tracker's thread and /status.
NextOwner ==
    \/ NextAttach
    \/ TrackerUpdate
    \/ CmdStatus

SpecOwner == Init /\ [][NextOwner]_vars

\* Results across a discontinuity: the poll loop and /hook against a Dolphin
\* that is closed and started again and a game that stores Grand Prix results
\* whether or not the client is attached.
NextBaseline ==
    \/ OnConnected(DefaultSlotData)
    \/ PollWake
    \/ PollConnect
    \/ \E t \in {"poll", "rehook"} : DmeHook(t)
    \/ PollProbe
    \/ CheckScan("poll")
    \/ CheckSent("poll")
    \/ CheckCleanup("poll")
    \/ PollBlock
    \/ CmdHook
    \/ RehookStart
    \/ RehookFocus(FALSE)
    \/ RehookAttempt
    \/ RehookWake
    \/ DolphinClosed
    \/ GameBoot(Booted)
    \/ \E cup_id \in 0 .. (NumGpCups - 1), bytes \in Prefix(ResultPool, NumResults) :
           slot_data.present /\ GameFinishGP(cup_id, GameCc, bytes)

SpecBaseline == Init /\ [][NextBaseline]_vars

\* ------------------------------------------------------------------------
\* The world: the locations it creates and the slot data it hands out
\* ------------------------------------------------------------------------

\* regions.py
CC_INDEX == <<"50cc", "100cc", "150cc", "Mirror">>
DIFFICULTY_INDEX == <<"3rd_place", "2nd_place", "1st_place", "1_star", "2_star", "3_star">>

\* the player's options that decide the cup locations
Options(ccs, tiers, required, difficulty, goal_cc) ==
    [enabled_ccs |-> ccs, enabled_cup_check_tiers |-> tiers,
     cups_required_for_goal |-> required, goal_difficulty |-> difficulty,
     goal_cc |-> goal_cc]

\* create_regions: the cup-completion locations, as <<cup, cc, difficulty>>.
\* For every cup and enabled class the enabled tiers, and on the goal class
\* the goal tier as well; a name outside location_table creates nothing.
create_regions(options) ==
    { loc \in DOMAIN location_table :
        /\ loc[2] \in options.enabled_ccs
        /\ \/ loc[3] \in options.enabled_cup_check_tiers
           \/ /\ loc[2] = CC_INDEX[options.goal_cc + 1]
              /\ loc[3] = DIFFICULTY_INDEX[options.goal_difficulty + 1] }

\* list(s) of a set: its elements once each, in an order the set decides
RECURSIVE ListsOf(_)
ListsOf(s) ==
    IF s = {} THEN { <<>> }
    ELSE UNION { { <<x>> \o l : l \in ListsOf(s \ {x}) } : x \in s }

\* fill_slot_data: the slot data the client may receive for these options
fill_slot_data(options) ==
    { SlotData(ccs, tiers, options.cups_required_for_goal,
               options.goal_difficulty, options.goal_cc) :
        ccs \in ListsOf(options.enabled_ccs),
        tiers \in ListsOf(options.enabled_cup_check_tiers) }

\* a goal tier outside the enabled tiers, on an enabled goal class
GoalTierUnlisted == Options({"100cc", "150cc"}, {"3rd_place", "2nd_place"}, 1, 2, 2)

\* options of a player: the goal tier among the enabled tiers; outside them;
\* the goal class outside the enabled classes
WorldOptions ==
    { Options({"100cc", "150cc"}, {"3rd_place", "2nd_place", "1st_place"}, 1, 2, 2),
      GoalTierUnlisted,
      Options({"100cc"}, {"3rd_place", "2nd_place"}, 1, 1, 2) }

\* The world's locations against the client's scan: the poll loop and a
\* server that confirms, for each of the options.
NextWorld ==
    \/ \E o \in WorldOptions : \E sd \in fill_slot_data(o) : OnConnected(sd)
    \/ OnRoomUpdate(pending_location_ids)
    \/ PollWake
    \/ PollConnect
    \/ DmeHook("poll")
    \/ PollProbe
    \/ CheckScan("poll")
    \/ CheckSent("poll")
    \/ CheckCleanup("poll")
    \/ CheckGoalSent("poll")
    \/ PollBlock
    \/ \E cup_id \in 0 .. (NumGpCups - 1), bytes \in Prefix(ResultPool, NumResults) :
           slot_data.present /\ GameFinishGP(cup_id, GameCc, bytes)

SpecWorld == Init /\ [][NextWorld]_vars

\* Progress tracking with sends that may fail.
NextSend ==
    \/ Next
    \/ \E t \in Tasks : CheckSendFails(t)

SpecSend == Init /\ [][NextSend]_vars

\* Attachment with hook() awaited: the poll loop and /hook against a game
\* that restarts, each resolve giving up control at its sleeps.
NextSuspend ==
    \/ OnConnected(DefaultSlotData)
    \/ PollWake
    \/ PollConnect /\ is_connected(dolphin).ret
    \/ \E t \in {"poll", "rehook"} : DmeHook(t)
    \/ \E t \in {"poll", "rehook"} : HookBegin(t)
    \/ \E t \in {"poll", "rehook"} : HookResume(t)
    \/ PollProbe
    \/ CheckScan("poll")
    \/ CheckCleanup("poll")
    \/ PollBlock
    \/ CmdHook
    \/ RehookStart
    \/ RehookFocus(FALSE)
    \/ RehookWake
    \/ \E b \in BootStages : GameBoot(b)
    \/ DolphinExit

SpecSuspend == Init /\ [][NextSuspend]_vars
\* ------------------------------------------------------------------------
\* The manager's flag calls against every content of the unlock region
\* ------------------------------------------------------------------------

\* byte patterns: every bit clear, every bit set, alternating bits
BytePool == {0, 85, 170, 255}

Filled(S, b) == [i \in S |-> b]

InitFlag ==
    /\ dme_hooked = TRUE
    /\ boot = Booted
    /\ rtOk \in BOOLEAN
    /\ svOk \in BOOLEAN
    /\ rt \in { Filled(0 .. (UNLOCK_BYTE_COUNT - 1), b) : b \in BytePool }
    /\ sv \in { Filled(SAVE_UNLOCK_START .. (SAVE_UNLOCK_START + UNLOCK_BYTE_COUNT - 1), b) :
                  b \in {0, 255} }
    /\ gp = [k \in GpKeys |-> <<0, 0, 0>>]
    /\ dolphin = Resolved
    /\ resolving = NoFrames
    /\ fake_trophies = <<>>
    /\ InitContext

\* names with no entry in ALL_UNLOCK_IDS: a starting character, a starting
\* kart, and an item that stands for no entity
StartingNames == {"Mario", "Standard Kart M", "Brake Trap"}

\* unlock_item(e) or lock_item(e)
WriteFlag(e, value) ==
    /\ call.op = "none"
    /\ \E w \in {IF value THEN unlock_item(dolphin, Mem, e) ELSE lock_item(dolphin, Mem, e)} :
           /\ rt' = w.mem.rt
           /\ sv' = w.mem.sv
           /\ call' = [op |-> "write_flag", entity |-> e, value |-> value,
                       raised |-> w.raised, changed |-> w.changed,
                       accesses |-> w.accesses, rt_before |-> rt, sv_before |-> sv]
    /\ UNCHANGED <<resolving, dme_hooked, boot, rtOk, svOk, gp, dolphin, grantVars, locVars,
                   taskVars, sent_checks, goal_msgs, log>>

\* is_item_unlocked(e), right after the write
ReadFlag ==
    /\ call.op = "write_flag"
    /\ \E r \in {is_item_unlocked(dolphin, Mem, call.entity)} :
           call' = [op |-> "read_flag", entity |-> call.entity, value |-> call.value,
                    write_raised |-> call.raised, write_changed |-> call.changed,
                    write_accesses |-> call.accesses, rt_before |-> call.rt_before,
                    sv_before |-> call.sv_before, raised |-> r.raised, ret |-> r.ret,
                    accesses |-> r.accesses]
    /\ UNCHANGED <<resolving, devVars, dolphin, grantVars, locVars, taskVars, sent_checks,
                   goal_msgs, log>>

\* lock_all_unlocks()
LockAll ==
    /\ call.op = "none"
    /\ \E w \in {lock_all_unlocks(dolphin, Mem, 0)} :
           /\ rt' = w.mem.rt
           /\ sv' = w.mem.sv
           /\ call' = [op |-> "lock_all", raised |-> w.raised,
                       rt_before |-> rt, sv_before |-> sv]
    /\ UNCHANGED <<resolving, dme_hooked, boot, rtOk, svOk, gp, dolphin, grantVars, locVars,
                   taskVars, sent_checks, goal_msgs, log>>

NextFlag ==
    \/ \E e \in DOMAIN ALL_UNLOCK_IDS \cup StartingNames, value \in BOOLEAN :
           WriteFlag(e, value)
    \/ ReadFlag
    \/ LockAll

SpecFlag == InitFlag /\ [][NextFlag]_vars

\* ------------------------------------------------------------------------
\* get_gp_result against every content of a Grand Prix record
\* ------------------------------------------------------------------------

GateBytes == {0, 127, 128, 255}
\* every value of bits 7..6, with the low bits clear and set
TrophyBytes == {0, 63, 64, 128, 191, 255}
\* every value of the low four bits, and two bytes with high bits set
RankBytes == (0 .. 15) \cup {242, 249}
RecordPool == GateBytes \X TrophyBytes \X RankBytes

\* the records the drawn one is placed at; the others hold a finished gold run
TargetKeys == {0, 7} \X Range(CC_NAMES)

InitDecode ==
    /\ dme_hooked = TRUE
    /\ boot = Booted
    /\ rtOk = TRUE
    /\ svOk \in BOOLEAN
    /\ rt = Filled(0 .. (UNLOCK_BYTE_COUNT - 1), 0)
    /\ sv = Filled(SAVE_UNLOCK_START .. (SAVE_UNLOCK_START + UNLOCK_BYTE_COUNT - 1), 0)
    /\ gp \in { [k \in GpKeys |-> IF k = target THEN rec ELSE <<128, 0, 0>>] :
                  target \in TargetKeys, rec \in RecordPool }
    /\ dolphin = Resolved
    /\ resolving = NoFrames
    /\ fake_trophies = <<>>
    /\ InitContext

Decode(cup_id, cc) ==
    /\ call.op = "none"
    /\ \E r \in {get_gp_result(dolphin, Mem, cup_id, cc)} :
           call' = [op |-> "decode", cup_id |-> cup_id, cc |-> cc,
                    raised |-> r.raised, ret |-> r.ret, reads |-> r.reads]
    /\ UNCHANGED <<resolving, devVars, dolphin, grantVars, locVars, taskVars, sent_checks,
                   goal_msgs, log>>

NextDecode ==
    \E cup_id \in 0 .. 7, cc \in Range(CC_NAMES) \cup {"200cc"} : Decode(cup_id, cc)

SpecDecode == InitDecode /\ [][NextDecode]_vars

\* ------------------------------------------------------------------------
\* _tiers_from_result and _is_real_result over every trophy and rank
\* ------------------------------------------------------------------------

Trophies == {"none", "bronze", "silver", "gold"}
Ranks == {"3_star", "2_star", "1_star", "A", "B", "C", "D", "E", "F"}

\* no baseline, or one baseline for the first cup on 150cc
InitProgress ==
    /\ InitDevice
    /\ dolphin = Unhooked
    /\ resolving = NoFrames
    /\ fake_trophies \in {<<>>} \cup
           { (<<0, "150cc">> :> <<t, r>>) : t \in Trophies, r \in Ranks }
    /\ InitContext

TiersFromResult(trophy, rank) ==
    /\ call.op = "none"
    /\ call' = [op |-> "tiers_from_result", trophy |-> trophy, rank |-> rank,
                ret |-> tiers_from_result(trophy, rank)]
    /\ UNCHANGED <<resolving, devVars, dolphin, grantVars, locVars, taskVars, sent_checks,
                   goal_msgs, log>>

IsRealResult(cup_id, cc, trophy, rank) ==
    /\ call.op = "none"
    /\ \E r \in {is_real_result(fake_trophies, cup_id, cc, trophy, rank)} :
           /\ fake_trophies' = r.fake_trophies
           /\ call' = [op |-> "is_real_result", key |-> <<cup_id, cc>>,
                       trophy |-> trophy, rank |-> rank, before |-> fake_trophies,
                       ret |-> r.ret]
    /\ UNCHANGED <<resolving, devVars, dolphin, grantVars, completed_locations,
                   location_name_to_id, pending_location_ids, checked_locations,
                   slot_data, goal_reached, taskVars, sent_checks, goal_msgs, log>>

NextProgress ==
    \/ \E trophy \in Trophies, rank \in Ranks : TiersFromResult(trophy, rank)
    \/ \E cup_id \in {0, 1}, trophy \in Trophies, rank \in Ranks :
           IsRealResult(cup_id, "150cc", trophy, rank)

SpecProgress == InitProgress /\ [][NextProgress]_vars


\* ------------------------------------------------------------------------
\* async_resolve_pointers against every stage of a booting game
\* ------------------------------------------------------------------------

\* What the game may show while it boots: not up yet, another disc, a manager
\* pointer that is still null or that leads nowhere, a save pointer that is
\* still null or that leads nowhere, a buffer without its magic yet.
BootPool ==
    [up : BOOLEAN, game_id : {"RMCP01", "RMCE01"},
     mgr : {DevMgrPtr, DevMgrPtr + 4096, -4096},
     save : {DevSavePtr, DevSavePtr + 4096, -4096},
     magic : {"RKSD", "none"}]

\* The manager before the attempt: as constructed, attached with a layout, and
\* with a layout whose _hooked flag is_connected has cleared.
PriorManagers == {Unhooked, Resolved, [Resolved EXCEPT !.hooked = FALSE]}

InitResolve ==
    /\ dme_hooked = TRUE
    /\ boot \in BootPool
    /\ rtOk \in BOOLEAN
    /\ svOk \in BOOLEAN
    /\ rt = Filled(0 .. (UNLOCK_BYTE_COUNT - 1), 0)
    /\ sv = Filled(SAVE_UNLOCK_START .. (SAVE_UNLOCK_START + UNLOCK_BYTE_COUNT - 1), 0)
    /\ gp = [k \in GpKeys |-> <<0, 0, 0>>]
    /\ dolphin \in PriorManagers
    /\ resolving = NoFrames
    /\ fake_trophies = <<>>
    /\ InitContext

\* async_resolve_pointers()
Resolve ==
    /\ call.op = "none"
    /\ \E r \in {resolve_pointers(dolphin, boot)} :
           /\ dolphin' = r.d
           /\ call' = [op |-> "resolve", before |-> dolphin, ret |-> r.ret,
                       reads |-> r.reads]
    /\ UNCHANGED <<resolving, devVars, grantVars, locVars, taskVars, sent_checks, goal_msgs, log>>

NextResolve == Resolve

SpecResolve == InitResolve /\ [][NextResolve]_vars

\* ------------------------------------------------------------------------
\* _check_goal on every completion map
\* ------------------------------------------------------------------------

\* goal tiers 3rd_place, 1_star, 3_star and an index past the table; one or
\* two cups required; the goal class 150cc
GoalConfigs ==
    { SlotData(DefaultSlotData.enabled_ccs, DefaultSlotData.enabled_cup_check_tiers,
               required, difficulty, 2) :
        required \in {1, 2}, difficulty \in {0, 3, 5, 7} }

\* the maps a confirmed history can seed: any tier, or none, for each of the
\* first NumGoalCups cups on 150cc
CompletionPool ==
    { [k \in CompletionKeys |->
          IF k[2] = "150cc" /\ IndexOf(CUPS, k[1]) < NumGoalCups
          THEN f[IndexOf(CUPS, k[1])] ELSE "none"] :
        f \in [0 .. (NumGoalCups - 1) -> {"none"} \cup Range(TIER_HIERARCHY)] }

InitGoal ==
    /\ InitDevice
    /\ dolphin = Unhooked
    /\ resolving = NoFrames
    /\ fake_trophies = <<>>
    /\ unlocked_characters = {}
    /\ unlocked_karts = {}
    /\ unlocked_bikes = {}
    /\ unlocked_cups = {}
    /\ unlocked_modes = {}
    /\ completed_locations \in CompletionPool
    /\ location_name_to_id = TRUE
    /\ pending_location_ids = {}
    /\ checked_locations = {}
    /\ slot_data \in GoalConfigs
    /\ goal_reached = FALSE
    /\ loading_state = FALSE
    /\ attempt = 0
    /\ skipped = FALSE
    /\ memory_poll_task = FALSE
    /\ pc = [t \in AllTasks |-> IF t = "poll" THEN "none" ELSE "idle"]
    /\ new_locations = [t \in Tasks |-> <<>>]
    /\ running = "none"
    /\ sent_checks = <<>>
    /\ goal_msgs = 0
    /\ log = {}
    /\ call = NoCall

\* _check_goal()
CheckGoal ==
    /\ call.op = "none"
    /\ call' = [op |-> "check_goal", count |-> goal_count(completed_locations, slot_data),
                sent |-> check_goal(goal_reached, completed_locations, slot_data)]
    /\ goal_reached' = (goal_reached
                        \/ check_goal(goal_reached, completed_locations, slot_data))
    /\ goal_msgs' = IF check_goal(goal_reached, completed_locations, slot_data)
                    THEN goal_msgs + 1 ELSE goal_msgs
    /\ UNCHANGED <<resolving, devVars, dolphin, grantVars, completed_locations,
                   location_name_to_id, fake_trophies, pending_location_ids,
                   checked_locations, slot_data, taskVars, sent_checks, log>>

NextGoal == CheckGoal

SpecGoal == InitGoal /\ [][NextGoal]_vars

\* ------------------------------------------------------------------------
\* gecko_manager.py: inject_gecko_codes against the game INI
\* ------------------------------------------------------------------------
\* A file is the sequence of its tokens: a run of blanks (SP), a line break
\* (NL), or a run of text that holds neither.  A line is the tokens up to and
\* including its line break; the last line of a file may have none.

SP == " "
NL == "\n"

\* {code_name: [line, ...]}, in the order of the dict
GECKO_CODES ==
    << <<"Prevent Unlock Screen [vabold]",
         <<"06854FA4 00000008", "3860FFFF 4E800020">>>> >>

\* _base_name over the code names that occur: the text before the first "[",
\* stripped
base_name ==
    ("Prevent Unlock Screen [vabold]" :> "Prevent Unlock Screen")
        @@ ("Prevent Unlock Screen" :> "Prevent Unlock Screen")
        @@ ("Other Code [x]" :> "Other Code")
        @@ ("Other Code" :> "Other Code")

SectionHeaders == {"[Core]", "[Gecko]", "[Gecko_Enabled]"}

\* str.strip() of a line
RECURSIVE lstrip(_)
lstrip(line) ==
    IF line # <<>> /\ Head(line) \in {SP, NL} THEN lstrip(Tail(line)) ELSE line

RECURSIVE rstrip(_)
rstrip(line) ==
    IF line # <<>> /\ line[Len(line)] \in {SP, NL}
    THEN rstrip(SubSeq(line, 1, Len(line) - 1)) ELSE line

strip(line) == rstrip(lstrip(line))

\* stripped.startswith("[") and stripped.endswith("]"): the first text of the
\* line opens a bracket and its last text closes one
is_section_header(stripped) ==
    /\ stripped # <<>>
    /\ Head(stripped) \in SectionHeaders
    /\ \/ stripped[Len(stripped)] \in SectionHeaders
       \/ \E n \in DOMAIN base_name :
              stripped[Len(stripped)] = "$" \o n /\ base_name[n] # n

\* l.strip().startswith("$")
is_code_name(line) ==
    strip(line) # <<>> /\ \E n \in DOMAIN base_name : Head(strip(line)) = "$" \o n

\* _base_name(l.strip()[1:]) of a line that holds one code name
code_base(line) ==
    base_name[CHOOSE n \in DOMAIN base_name : Head(strip(line)) = "$" \o n]

\* f.readlines(): the content cut after every line break
RECURSIVE readlines(_, _, _)
readlines(content, i, line) ==
    IF i > Len(content) THEN (IF line = <<>> THEN <<>> ELSE <<line>>)
    ELSE IF content[i] = NL
    THEN <<Append(line, NL)>> \o readlines(content, i + 1, <<>>)
    ELSE readlines(content, i + 1, Append(line, content[i]))

\* _parse_ini_sections: sections = [<<name, body>>], current = <<>> for None
RECURSIVE parse_ini_sections(_, _, _, _)
parse_ini_sections(raw_lines, i, sections, current) ==
    IF i > Len(raw_lines)
    THEN (IF current # <<>> THEN Append(sections, current) ELSE sections)
    ELSE IF is_section_header(strip(raw_lines[i]))
    THEN parse_ini_sections(raw_lines, i + 1,
             IF current # <<>> THEN Append(sections, current) ELSE sections,
             <<strip(raw_lines[i]), <<>>>>)
    ELSE IF current = <<>>
    THEN parse_ini_sections(raw_lines, i + 1,
             Append(sections, <<<<"__preamble__">>, <<raw_lines[i]>>>>), current)
    ELSE parse_ini_sections(raw_lines, i + 1, sections,
             <<current[1], Append(current[2], raw_lines[i])>>)

RECURSIVE writelines(_, _)
writelines(body, i) ==
    IF i > Len(body) THEN <<>> ELSE body[i] \o writelines(body, i + 1)

\* _write_ini_sections: what the file holds after the write
RECURSIVE write_ini_sections(_, _)
write_ini_sections(sections, i) ==
    IF i > Len(sections) THEN <<>>
    ELSE (IF sections[i][1] = <<"__preamble__">>
          THEN writelines(sections[i][2], 1)
          ELSE sections[i][1] \o <<NL>> \o writelines(sections[i][2], 1))
         \o write_ini_sections(sections, i + 1)

\* _append_to_body: lines are texts without a line break
RECURSIVE append_to_body(_, _)
append_to_body(body, lines) ==
    IF body # <<>> /\ strip(body[Len(body)]) = <<>>
    THEN append_to_body(SubSeq(body, 1, Len(body) - 1), lines)
    ELSE body \o [i \in DOMAIN lines |-> <<lines[i], NL>>]

\* next((i for i, (s, _) in enumerate(sections) if s == name), None), 1-based
section_idx(sections, name) ==
    IF \E i \in DOMAIN sections : sections[i][1] = <<name>>
    THEN CHOOSE i \in DOMAIN sections :
             /\ sections[i][1] = <<name>>
             /\ \A j \in 1 .. (i - 1) : sections[j][1] # <<name>>
    ELSE None

\* the loop `for name, code_lines in codes.items()`:
\* s = [gecko_body, enabled_body, codes_added, codes_enabled]
RECURSIVE AddMissing(_, _, _, _, _)
AddMissing(s, codes, i, existing_definitions, existing_enabled) ==
    IF i > Len(codes) THEN s
    ELSE AddMissing(
             [gecko_body |->
                  IF base_name[codes[i][1]] \notin existing_definitions
                  THEN append_to_body(s.gecko_body,
                                      <<"$" \o codes[i][1]>> \o codes[i][2])
                  ELSE s.gecko_body,
              enabled_body |->
                  IF base_name[codes[i][1]] \notin existing_enabled
                  THEN append_to_body(s.enabled_body,
                                      <<"$" \o base_name[codes[i][1]]>>)
                  ELSE s.enabled_body,
              codes_added |->
                  s.codes_added
                      + (IF base_name[codes[i][1]] \notin existing_definitions
                         THEN 1 ELSE 0),
              codes_enabled |->
                  s.codes_enabled
                      + (IF base_name[codes[i][1]] \notin existing_enabled
                         THEN 1 ELSE 0)],
             codes, i + 1, existing_definitions, existing_enabled)

\* the sections list after "Write back"
WriteBack(sections, idx, name, body) ==
    IF idx # None THEN [sections EXCEPT ![idx] = <<<<name>>, body>>]
    ELSE Append(sections, <<<<name>>, body>>)

\* inject_gecko_codes from the parsed sections on
InjectSections(exists, content, sections) ==
    LET gecko_idx == section_idx(sections, "[Gecko]")
        enabled_idx == section_idx(sections, "[Gecko_Enabled]")
        gecko_body == IF gecko_idx # None THEN sections[gecko_idx][2] ELSE <<>>
        enabled_body == IF enabled_idx # None THEN sections[enabled_idx][2] ELSE <<>>
        s == AddMissing([gecko_body |-> gecko_body, enabled_body |-> enabled_body,
                         codes_added |-> 0, codes_enabled |-> 0],
                        GECKO_CODES, 1,
                        { code_base(gecko_body[i]) :
                            i \in { j \in DOMAIN gecko_body : is_code_name(gecko_body[j]) } },
                        { code_base(enabled_body[i]) :
                            i \in { j \in DOMAIN enabled_body : is_code_name(enabled_body[j]) } })
    IN  IF s.codes_added = 0 /\ s.codes_enabled = 0
        THEN [written |-> FALSE, exists |-> exists, content |-> content]
        ELSE [written |-> TRUE, exists |-> TRUE,
              content |->
                  write_ini_sections(
                      WriteBack(WriteBack(sections, gecko_idx, "[Gecko]", s.gecko_body),
                                enabled_idx, "[Gecko_Enabled]", s.enabled_body), 1)]

\* inject_gecko_codes(dolphin_user_dir) on the INI file (exists, content):
\* whether the file was opened for writing, and the file afterwards
inject_gecko_codes(dolphin_user_dir, exists, content) ==
    IF ~dolphin_user_dir
    THEN [written |-> FALSE, exists |-> exists, content |-> content]
    ELSE InjectSections(exists, content,
             parse_ini_sections(IF exists THEN readlines(content, 1, <<>>) ELSE <<>>,
                                1, <<>>, <<>>))

\* The INI files the call is run on: an optional comment before the first
\* section, an optional [Core] section before or after the Gecko sections,
\* [Gecko] and [Gecko_Enabled] absent, empty, with another code or with the
\* required one, up to MaxBlank blank lines at the end of a body, headers
\* with or without blanks around them, the last line with or without its
\* line break.
Blanks(n) == [i \in 1 .. n |-> ""]

Preambles == { <<>>, <<"# Mario Kart Wii">> }
CoreSections == { <<>>, <<"[Core]", "CPUThread = True">> }
GeckoSections ==
    { <<>> } \cup
    { <<"[Gecko]">> \o body \o Blanks(n) :
        body \in { <<>>,
                   <<"$Other Code [x]", "04000000 00000001">>,
                   <<"$Prevent Unlock Screen [vabold]">> \o GECKO_CODES[1][2],
                   <<"$Prevent Unlock Screen">> \o GECKO_CODES[1][2] },
        n \in 0 .. MaxBlank }
EnabledSections ==
    { <<>> } \cup
    { <<"[Gecko_Enabled]">> \o body \o Blanks(n) :
        body \in { <<>>, <<"$Other Code">>, <<"$Prevent Unlock Screen">> },
        n \in 0 .. MaxBlank }

IniTexts ==
    { IF core_first THEN p \o c \o g \o e ELSE p \o g \o e \o c :
        p \in Preambles, c \in CoreSections, g \in GeckoSections,
        e \in EnabledSections, core_first \in BOOLEAN }

\* the tokens of the file whose lines hold the given texts
RECURSIVE FromTexts(_, _, _, _)
FromTexts(texts, i, padded, final_break) ==
    IF i > Len(texts) THEN <<>>
    ELSE (IF texts[i] = "" THEN <<>>
          ELSE IF padded /\ texts[i] \in SectionHeaders THEN <<SP, texts[i], SP>>
          ELSE <<texts[i]>>)
         \o (IF i < Len(texts) \/ final_break THEN <<NL>> ELSE <<>>)
         \o FromTexts(texts, i + 1, padded, final_break)

IniPool ==
    { FromTexts(t, 1, padded, final_break) :
        t \in IniTexts, padded \in BOOLEAN, final_break \in BOOLEAN }

InitGecko ==
    /\ InitDevice
    /\ dolphin = Unhooked
    /\ resolving = NoFrames
    /\ fake_trophies = <<>>
    /\ InitContext

\* show_backup_reminder calls inject_gecko_codes(self.get_dolphin_user_dir())
Inject(dolphin_user_dir, exists, content) ==
    /\ call.op = "none"
    /\ \E r \in {inject_gecko_codes(dolphin_user_dir, exists, content)} :
           call' = [op |-> "inject_gecko_codes", dolphin_user_dir |-> dolphin_user_dir,
                    existed |-> exists, before |-> content,
                    written |-> r.written, exists |-> r.exists, after |-> r.content]
    /\ UNCHANGED <<resolving, devVars, dolphin, grantVars, locVars, taskVars, sent_checks,
                   goal_msgs, log>>

NextGecko ==
    \/ \E dolphin_user_dir \in BOOLEAN, content \in IniPool :
           Inject(dolphin_user_dir, TRUE, content)
    \/ Inject(TRUE, FALSE, <<>>)

SpecGecko == InitGecko /\ [][NextGecko]_vars
\* ------------------------------------------------------------------------
\* Properties
\* ------------------------------------------------------------------------

\* the bit of a mapped name in the runtime mirror r / in the rksys buffer s
RtBit(r, name) ==
    BitSet(r[ALL_UNLOCK_IDS[name][1] - SAVE_UNLOCK_START], ALL_UNLOCK_IDS[name][2])

SvBit(s, name) == BitSet(s[ALL_UNLOCK_IDS[name][1]], ALL_UNLOCK_IDS[name][2])

\* name is in the grant set of its kind
IsGranted(name) ==
    \/ name \in DOMAIN CHARACTER_IDS /\ name \in unlocked_characters
    \/ name \in DOMAIN VEHICLE_IDS /\ name \in unlocked_karts \cup unlocked_bikes
    \/ name \in DOMAIN CUP_UNLOCK_IDS /\ name \in unlocked_cups
    \/ name \in DOMAIN MODE_IDS /\ name \in unlocked_modes

\* a step that ends an enforcement cycle: _block_vanilla_unlocks runs
EnforcementStep == pc["poll"] = "block" /\ pc'["poll"] = "sleep"

\* the rksys byte of name can be written
SaveWritable(name) == Mapped(save_addr(dolphin, ALL_UNLOCK_IDS[name][1]))

\* C1 (as amended): when an enforcement cycle ends in an attached session,
\* every mapped entity whose runtime bit was set and that is in no grant set
\* has its runtime bit clear, and its bit in the rksys buffer clear as well
\* whenever the rksys byte can be written; this holds for every cycle, so also
\* for later ones in which the game has set the bit again.
C1_DriftCorrection ==
    [][ (EnforcementStep /\ is_connected(dolphin).ret) =>
            \A name \in DOMAIN ALL_UNLOCK_IDS :
                (RtBit(rt, name) /\ ~IsGranted(name)) =>
                    /\ ~RtBit(rt', name)
                    /\ SaveWritable(name) => ~SvBit(sv', name) ]_vars

\* C1 as stated: both mirrors are clear after the cycle, whether or not the
\* rksys buffer can be written.
C1_BothMirrorsAlways ==
    [][ (EnforcementStep /\ is_connected(dolphin).ret) =>
            \A name \in DOMAIN ALL_UNLOCK_IDS :
                (RtBit(rt, name) /\ ~IsGranted(name)) =>
                    (~RtBit(rt', name) /\ ~SvBit(sv', name)) ]_vars

\* a cycle has just blocked King Boo, whose bit the game had set, in both
\* mirrors
C1_Witness ==
    /\ pc["poll"] = "sleep"
    /\ "King Boo" \in log
    /\ "King Boo" \notin unlocked_characters
    /\ svOk
    /\ ~RtBit(rt, "King Boo")
    /\ ~SvBit(sv, "King Boo")

\* the names whose bit is bit `bit` of byte `off` of the unlock region
NamesAt(off, bit) ==
    { n \in DOMAIN ALL_UNLOCK_IDS : ALL_UNLOCK_IDS[n] = <<off, bit>> }

\* C2: an enforcement cycle clears, in either mirror, only bits of names that
\* read unlocked and are in no grant set; it clears no bit of a granted
\* character, vehicle, cup or mode, of an alias of a granted vehicle, or of
\* "Mirror mode" once a Mirror cup has been granted.
C2_NeverLocksGranted ==
    [][ EnforcementStep =>
            /\ \A off \in DOMAIN sv, bit \in 0 .. 7 :
                   (\/ BitSet(rt[off - SAVE_UNLOCK_START], bit)
                          /\ ~BitSet(rt'[off - SAVE_UNLOCK_START], bit)
                    \/ BitSet(sv[off], bit) /\ ~BitSet(sv'[off], bit))
                   => \E n \in NamesAt(off, bit) : RtBit(rt, n) /\ ~IsGranted(n)
            /\ \A name \in DOMAIN ALL_UNLOCK_IDS :
                   IsGranted(name) =>
                       /\ RtBit(rt, name) => RtBit(rt', name)
                       /\ SvBit(sv, name) => SvBit(sv', name) ]_vars

\* a cycle has just blocked something while B. Dasher Mk 2 (granted under its
\* other spelling) and Mirror mode (granted with a Mirror cup) keep their bits
C2_Witness ==
    /\ pc["poll"] = "sleep"
    /\ log # {}
    /\ <<"Kart: ", "B. Dasher Mk 2">> \in Prefix(ItemPool, NumItems)
    /\ "B Dasher Mk 2" \in unlocked_karts
    /\ RtBit(rt, "B Dasher Mk 2")
    /\ "Star Cup Mirror" \in unlocked_cups
    /\ "Mirror mode" \in unlocked_modes
    /\ RtBit(rt, "Mirror mode")

\* C3: every location id is put in at most one LocationChecks message, and a
\* scan adds no id that is pending or confirmed when it runs, whatever the
\* interleaving of the poll loop, /check and the server's confirmations.
C3_ExactlyOnceEmission ==
    [][ /\ \A id \in DOMAIN sent_checks' : sent_checks'[id] <= 1
        /\ \A t \in Tasks :
               (pc[t] = "scan" /\ pc'[t] # "scan") =>
                   /\ Range(new_locations'[t])
                          \cap (pending_location_ids \cup checked_locations) = {}
                   /\ Cardinality(Range(new_locations'[t])) = Len(new_locations'[t])
      ]_vars

\* the poll loop waits in send_msgs with a batch while a /check task has
\* scanned the same results and found nothing to add
C3_Witness ==
    /\ pc["poll"] = "sending"
    /\ new_locations["poll"] # <<>>
    /\ pc["manual"] = "cleanup"
    /\ new_locations["manual"] = <<>>
    /\ Range(new_locations["poll"]) \subseteq pending_location_ids

\* C4: CLIENT_GOAL is sent at most once; goal_reached, once set, stays set,
\* and no step taken with it set sends the signal.
C4_GoalLatch ==
    [][ /\ goal_reached => (goal_reached' /\ goal_msgs' = goal_msgs)
        /\ goal_msgs' <= 1 ]_vars

\* the goal has been signalled and a later check_locations is about to
\* evaluate it again with the count still met
C4_Witness ==
    /\ goal_reached
    /\ goal_msgs = 1
    /\ pc["manual"] = "cleanup"
    /\ goal_count(completed_locations, slot_data) >= slot_data.cups_required_for_goal

\* the cups whose record on the goal class decodes to a result that reaches
\* the goal tier
QualifyingCups ==
    { cup_id \in 0 .. 7 :
        GoalTier(slot_data) \in
            Range(tiers_from_result(get_gp_result(dolphin, Mem, cup_id, GameCc).ret[1],
                                    get_gp_result(dolphin, Mem, cup_id, GameCc).ret[2])) }

DeviceQualifies ==
    slot_data.present /\ Cardinality(QualifyingCups) >= slot_data.cups_required_for_goal

\* C5: when a cycle of the attached poll loop scans a device on which at least
\* `required` cups hold a result on the goal class that reaches the goal
\* tier, finds nothing new to send and evaluates the goal, the goal is
\* reached; for every goal class, goal tier and required count.
C5_GoalReachability ==
    [][ (/\ pc["poll"] = "cleanup"
         /\ pc'["poll"] # "cleanup"
         /\ new_locations["poll"] = <<>>
         /\ DeviceQualifies) => goal_reached' ]_vars

\* a cycle has ended on a device that qualifies on the goal class, a class
\* that is not among the monitored ones, and the goal is not reached
C5_Witness ==
    /\ pc["poll"] = "block"
    /\ DeviceQualifies
    /\ GameCc \notin Range(slot_data.enabled_ccs)
    /\ dolphin.hooked
    /\ ~goal_reached

TierIdx(t) == IndexOf(TIER_HIERARCHY, t)

\* update_completion on the stored map with tier t leaves, for key k, the one
\* of the stored tier and t that has the greater index
MaxLaw(k, t) ==
    update_completion(completed_locations, k[1], k[2], t)[k] =
        IF TierIdx(t) > TierIdx(completed_locations[k]) THEN t ELSE completed_locations[k]

\* C6: no step (a seeding from the confirmed history, a scan, or any other)
\* lowers the index of the tier stored for a cup and class; and in every
\* state from which a scan or a seeding changes the map, update_completion
\* with any tier t leaves the maximum by index of the stored tier and t.
C6_Monotonicity ==
    [][ /\ completed_locations' # completed_locations =>
               \A k \in CompletionKeys :
                   TierIdx(completed_locations'[k]) >= TierIdx(completed_locations[k])
        /\ completed_locations' # completed_locations
               => \A k \in CompletionKeys, t \in Range(TIER_HIERARCHY) : MaxLaw(k, t)
      ]_vars

\* 1_star was seeded from the confirmed history; a later scan then sent the
\* lower tiers of the same cup and class, and the stored tier is still 1_star
C6_Witness ==
    /\ completed_locations[<<"Mushroom Cup", "150cc">>] = "1_star"
    /\ location_table[<<"Mushroom Cup", "150cc", "3rd_place">>] \in DOMAIN sent_checks
    /\ location_table[<<"Mushroom Cup", "150cc", "1_star">>] \notin DOMAIN sent_checks

\* C7: for every mapped entity and every prior content of the unlock region,
\* when the write of the runtime byte succeeds, unlock_item then
\* is_item_unlocked gives TRUE and lock_item then is_item_unlocked gives FALSE.
C7_FlagRoundTrip ==
    (call.op = "read_flag" /\ call.entity \in DOMAIN ALL_UNLOCK_IDS
         /\ ~call.write_raised) =>
        (~call.raised /\ call.ret = call.value)

\* lock_item on a region of all ones, then the read: FALSE, with the other
\* bytes untouched
C7_Witness ==
    /\ call.op = "read_flag"
    /\ call.entity = "B Dasher Mk 2"
    /\ ~call.value
    /\ ~call.write_raised
    /\ ~call.ret
    /\ rt[0] = 255

\* C8: get_gp_result on a record whose completion bit (bit 7 of the byte at
\* 0x52) is clear returns ("none", "D") and reads neither the trophy byte nor
\* the rank byte, for every cup, class and content of those bytes.
C8_GateDominance ==
    (/\ call.op = "decode"
     /\ call.cc \in DOMAIN GP_CC_OFFSETS
     /\ ~BitSet(gp[<<call.cup_id, call.cc>>][1], 7)) =>
        /\ call.ret = <<"none", "D">>
        /\ GP_TROPHY_OFF \notin Range(call.reads)
        /\ GP_RANK_OFF \notin Range(call.reads)

\* a readable record with the gate clear whose trophy and rank bytes say gold
\* with three stars
C8_Witness ==
    /\ call.op = "decode"
    /\ call.cup_id = 7
    /\ call.cc = "Mirror"
    /\ svOk
    /\ gp[<<7, "Mirror">>] = <<127, 0, 0>>
    /\ call.ret = <<"none", "D">>
    /\ call.reads = <<GP_COMPLETION_OFF>>

\* the tier list C9 states for a trophy and a rank
C9_Expected(trophy, rank) ==
    CASE trophy = "none" -> <<>>
      [] trophy = "bronze" -> <<"3rd_place">>
      [] trophy = "silver" -> <<"3rd_place", "2nd_place">>
      [] trophy = "gold" ->
            <<"3rd_place", "2nd_place", "1st_place">> \o
            (CASE rank = "1_star" -> <<"1_star">>
               [] rank = "2_star" -> <<"1_star", "2_star">>
               [] rank = "3_star" -> <<"1_star", "2_star", "3_star">>
               [] OTHER -> <<>>)

\* C9: _tiers_from_result gives [] for none, [3rd_place] for bronze,
\* [3rd_place, 2nd_place] for silver, and for gold the three places followed
\* by the star tiers up to the rank; star ranks add nothing without gold.
C9_TierDerivation ==
    call.op = "tiers_from_result" => call.ret = C9_Expected(call.trophy, call.rank)

\* (gold, 2_star) gives the three places, 1_star and 2_star
C9_Witness ==
    /\ call.op = "tiers_from_result"
    /\ call.trophy = "gold"
    /\ call.rank = "2_star"
    /\ call.ret = <<"3rd_place", "2nd_place", "1st_place", "1_star", "2_star">>

\* none < bronze < silver < gold
C10_TrophyOrder(t) ==
    CASE t = "none" -> 0 [] t = "bronze" -> 1 [] t = "silver" -> 2 [] t = "gold" -> 3

\* observed pair a is strictly greater than baseline b: by trophy, then by
\* rank (D, E and F lowest and equal, then C, B, A, 1_star, 2_star, 3_star)
C10_Greater(a, b) ==
    \/ C10_TrophyOrder(a[1]) > C10_TrophyOrder(b[1])
    \/ a[1] = b[1] /\ RankVal(a[2]) > RankVal(b[2])

RtByteOf(r, name) == r[ALL_UNLOCK_IDS[name][1] - SAVE_UNLOCK_START]
SvByteOf(s, name) == s[ALL_UNLOCK_IDS[name][1]]

\* the accesses of a call that went to the rksys buffer
SaveAccesses(acc) == { i \in DOMAIN acc : acc[i][2] = "sv" }

\* C11: when the read or write of the runtime byte fails (the entity is
\* mapped and the byte is not accessible), unlock_item / lock_item raises to
\* its caller, it attempts no read and no write on the
\* rksys buffer, and the rksys buffer (like the runtime bytes) is as it was.
C11_RuntimeFailurePropagates ==
    call.op = "write_flag" =>
        /\ call.entity \in DOMAIN ALL_UNLOCK_IDS => (call.raised <=> ~rtOk)
        /\ call.raised =>
               /\ SaveAccesses(call.accesses) = {}
               /\ sv = call.sv_before
               /\ rt = call.rt_before

\* lock_item on King Boo with the runtime bytes unmapped and the rksys
\* buffer readable: the call raised and King Boo's rksys bit is still set
C11_Witness ==
    /\ call.op = "write_flag"
    /\ call.entity = "King Boo"
    /\ ~call.value
    /\ ~rtOk /\ svOk
    /\ call.raised
    /\ SvBit(sv, "King Boo")

\* C12: a failed access to the rksys buffer is swallowed: the call returns
\* with the runtime bit written and the rksys buffer as it was, and `changed`
\* is TRUE exactly when the runtime byte differs before and after the call,
\* whatever the rksys buffer held and whether or not its access failed
\* (the entity is a mapped one: it has a runtime bit).
C12_PersistedFailureSwallowed ==
    (call.op = "write_flag" /\ call.entity \in DOMAIN ALL_UNLOCK_IDS /\ rtOk) =>
        /\ ~call.raised
        /\ RtBit(rt, call.entity) = call.value
        /\ call.changed <=>
               RtByteOf(rt, call.entity) # RtByteOf(call.rt_before, call.entity)
        /\ ~svOk => sv = call.sv_before

\* unlock_item on King Boo with the rksys buffer unmapped and every runtime
\* bit clear: the call returned changed = TRUE and the runtime bit is set
C12_Witness ==
    /\ call.op = "write_flag"
    /\ call.entity = "King Boo"
    /\ call.value
    /\ rtOk /\ ~svOk
    /\ ~call.raised
    /\ call.changed
    /\ RtBit(rt, "King Boo")
    /\ ~SvBit(sv, "King Boo")

\* ------------------------------------------------------------------------
\* Properties of the resolver
\* ------------------------------------------------------------------------

\* the word at manager + 0x14 can be read; the four bytes at the save pointer
\* can be read
C15_SavePtrReadable == boot.mgr = DevMgrPtr /\ rtOk
C15_MagicReadable == boot.save = DevSavePtr /\ svOk

\* how many of the four staged reads are made: each one only when every
\* earlier read succeeded and passed its test
C15_StagesRead ==
    IF ~boot.up \/ boot.game_id # "RMCP01" THEN 1
    ELSE IF boot.mgr < 0 THEN 2
    ELSE IF ~C15_SavePtrReadable \/ boot.save < 0 THEN 3
    ELSE 4

\* C15: async_resolve_pointers returns True exactly when the four staged reads
\* succeed, the game id is RMCP01, the manager pointer and the save pointer
\* read at manager + 0x14 are at or above 0x80000000 and the bytes at the save
\* pointer are RKSD; it stops reading at the first stage that fails; on
\* success the manager holds the manager pointer, the save pointer and
\* runtime base = manager + 0x9034 + license index * 0x93F0.
C15_ResolveResult ==
    call.op = "resolve" =>
        /\ call.ret <=>
               /\ boot.up /\ boot.game_id = "RMCP01"
               /\ boot.mgr >= 0 /\ C15_SavePtrReadable
               /\ boot.save >= 0 /\ C15_MagicReadable
               /\ boot.magic = "RKSD"
        /\ call.reads =
               SubSeq(<<0, 10213192, boot.mgr + 20, boot.save>>, 1, C15_StagesRead)
        /\ call.ret =>
               dolphin = [hooked |-> TRUE, manager_ptr |-> boot.mgr,
                          save_buffer_base |-> boot.save,
                          runtime_base |-> boot.mgr + 36916 + 0 * 37872]

\* a resolve from the constructed manager against the booted game succeeded
C15_Witness ==
    /\ call.op = "resolve"
    /\ call.before = Unhooked
    /\ call.ret
    /\ Len(call.reads) = 4
    /\ dolphin.runtime_base = DevMgrPtr + 36916

\* C16: a failed async_resolve_pointers leaves _hooked and the three pointers
\* exactly as they were, whichever stage failed.
C16_FailedResolveChangesNothing ==
    (call.op = "resolve" /\ ~call.ret) => dolphin = call.before

\* an attached manager, a buffer that has lost its magic: the resolve failed at
\* the last stage and the old layout is still there
C16_Witness ==
    /\ call.op = "resolve"
    /\ ~call.ret
    /\ Len(call.reads) = 4
    /\ call.before = Resolved
    /\ dolphin = Resolved

\* ------------------------------------------------------------------------
\* Properties of the attachment
\* ------------------------------------------------------------------------

\* the three pointers of a manager
LayoutOf(d) == <<d.manager_ptr, d.runtime_base, d.save_buffer_base>>

\* every pointer is None; every pointer is set, the runtime base being the one
\* that belongs to the manager pointer
LayoutCleared(d) == LayoutOf(d) = <<None, None, None>>
LayoutWhole(d) ==
    /\ d.manager_ptr # None /\ d.runtime_base # None /\ d.save_buffer_base # None
    /\ d.runtime_base = d.manager_ptr + 36916

\* C13: in every reachable state _manager_ptr, _runtime_base and
\* _save_buffer_base are all set or all None, and every step that changes one
\* of them (a resolve, an unhook, an is_connected) leaves them all set or all
\* None.
C13_LayoutAllOrNothing ==
    /\ [](LayoutCleared(dolphin) \/ LayoutWhole(dolphin))
    /\ [][ LayoutOf(dolphin') # LayoutOf(dolphin) =>
               \/ LayoutCleared(dolphin') /\ LayoutWhole(dolphin)
               \/ LayoutWhole(dolphin') /\ LayoutCleared(dolphin) ]_vars

\* is_connected has found DME detached and cleared _hooked: the three pointers
\* are all still there
C13_Witness ==
    /\ ~dolphin.hooked
    /\ LayoutWhole(dolphin)
    /\ ~dme_hooked

\* a step of the poll task in which check_locations reads GP records while
\* the rksys buffer cannot be read
ScanReadFails ==
    /\ pc["poll"] = "scan" /\ pc'["poll"] # "scan"
    /\ slot_data.present
    /\ is_connected(dolphin).ret
    /\ ~svOk

\* the liveness probe of the poll loop fails
ProbeReadFails ==
    /\ pc["poll"] = "probe" /\ pc'["poll"] # "probe"
    /\ read_all_unlock_bytes_raises(dolphin)

\* C14: a failed read against the layout while attached, in the liveness
\* probe or in a GP result read of the result scan, leaves the manager
\* detached with its three pointers cleared.
C14_IoFailureDetaches ==
    [][ (ProbeReadFails \/ ScanReadFails) =>
            (~dolphin'.hooked /\ LayoutCleared(dolphin')) ]_vars

\* the result scan has just run against an unreadable rksys buffer and the
\* manager is still attached with its layout
C14_Witness ==
    /\ pc["poll"] = "cleanup"
    /\ running = "poll"
    /\ ~svOk
    /\ dolphin.hooked
    /\ LayoutWhole(dolphin)

\* C17: a cycle of the poll loop whose test at the top sees _loading_state set
\* goes back to the sleep: it reads and writes no device memory, makes no hook
\* attempt and sends nothing.
C17_SuspendedCycle ==
    [][ (pc["poll"] = "sleep" /\ loading_state) =>
            /\ pc'["poll"] \in {"sleep", "done"}
            /\ skipped' # skipped =>
                   /\ skipped'
                   /\ UNCHANGED <<devVars, dolphin, outVars, locVars, grantVars>> ]_vars

\* the loop has skipped a cycle while /hook was retrying
C17_Witness ==
    /\ skipped
    /\ loading_state
    /\ pc["poll"] = "sleep"
    /\ pc["rehook"] = "wait"

\* a step of /hook (_cmd_hook or _force_rehook) that touches the attachment:
\* the manager or DME's hook
RehookTouches ==
    /\ pc'["rehook"] # pc["rehook"]
    /\ dolphin' # dolphin \/ dme_hooked' # dme_hooked

\* C18: every step of /hook that touches the attachment state (unhook, layout
\* reset, hook attempt) is taken with _loading_state already set.
C18_FlagBeforeDetach ==
    [][ RehookTouches => loading_state ]_vars

\* /hook has run unhook, _loading_state is still clear, and the poll loop has
\* started a cycle in between
C18_Witness ==
    /\ pc["rehook"] = "start"
    /\ ~loading_state
    /\ dolphin = Unhooked
    /\ pc["poll"] = "connect"

LoopPositions ==
    {"sleep", "connect", "probe", "scan", "sending", "cleanup", "goal_sending", "block"}

\* C20: the poll task leaves its loop only when it is cancelled while it
\* waits; every other step it takes, the failed hook, the failed probe, the
\* failed result read and the failed mirror write included, leaves it inside
\* the loop, and from its sleep the next cycle can always start.
C20_LoopNeverEnds ==
    /\ [][ (pc["poll"] \in LoopPositions /\ pc'["poll"] # pc["poll"]) =>
               \/ pc'["poll"] \in LoopPositions
               \/ /\ pc'["poll"] = "done"
                  /\ pc["poll"] \in {"sleep", "sending", "goal_sending"}
                  /\ UNCHANGED <<devVars, dolphin, outVars>> ]_vars
    /\ []((pc["poll"] = "sleep" /\ running = "none") => ENABLED PollWake)

\* a cycle has ended in a failed hook attempt (the game is not up) and the
\* task is back at its sleep
C20_Witness ==
    /\ pc["poll"] = "sleep"
    /\ memory_poll_task
    /\ ~boot.up
    /\ dme_hooked
    /\ ~dolphin.hooked
    /\ pc["rehook"] = "idle"
    /\ ~loading_state

\* ------------------------------------------------------------------------
\* Claims C21..C30
\* ------------------------------------------------------------------------

\* the five grant sets of the next state
GrantsNext ==
    [characters |-> unlocked_characters', karts |-> unlocked_karts',
     bikes |-> unlocked_bikes', cups |-> unlocked_cups', modes |-> unlocked_modes']

\* C21: every step leaves each of the five grant sets a superset of what it
\* was, and a step that changes one of them is the handling of a ReceivedItems
\* item: the new sets are what _process_item makes of the old ones, and no
\* task (poll loop, /hook) has moved.
C21_GrantsAppendOnly ==
    [][ /\ \A k \in DOMAIN Grants : Grants[k] \subseteq GrantsNext[k]
        /\ grantVars' # grantVars =>
               /\ \E item \in item_table :
                      GrantsNext = process_item(Grants, dolphin, Mem, item).g
               /\ UNCHANGED <<pc, running, loading_state, attempt>> ]_vars

\* a kart and a Mirror cup (which also grants Mirror mode) have been handled,
\* the poll loop is at its sleep, and a /hook waits between two attempts with
\* the suspension flag set
C21_Witness ==
    /\ unlocked_karts # {}
    /\ unlocked_cups # {}
    /\ unlocked_modes # {}
    /\ pc["poll"] = "sleep"
    /\ pc["rehook"] = "wait"
    /\ loading_state

\* the map entries an item's grant writes: its own, and Mirror mode with a
\* Mirror cup
WrittenFor(item) ==
    ({item[2]} \cap DOMAIN ALL_UNLOCK_IDS)
    \cup (IF item \in CUP_CC_ITEMS /\ HasMirror(item) THEN {"Mirror mode"} ELSE {})

\* the map entries the current grants stand for
GrantedEntities ==
    GrantedNames(Grants)
    \cup (IF \E cup \in unlocked_cups : HasMirror(<<"", cup>>) THEN {"Mirror mode"} ELSE {})

\* a hook of the poll loop or of /hook takes the manager from detached to
\* attached in this step
Attaches ==
    /\ PollConnect \/ RehookAttempt
    /\ ~is_connected(dolphin).ret
    /\ hook(dolphin, boot, dme_hooked).ret

\* C22: (a) an item handled while attached leaves the bits it stands for set in
\* the runtime mirror, and in the persisted mirror when that is mapped;
\* (b) a step that attaches, in the poll loop or in /hook, leaves the bit of
\* every granted entity set in the runtime mirror (and in the persisted one
\* when mapped), and it is not the drift scan; (c) hence whenever the manager
\* is attached every granted entity reads unlocked.
C22_GrantsMirrored ==
    /\ [][ /\ \A item \in item_table :
                  (is_connected(dolphin).ret /\ OnReceivedItems(item)) =>
                      \A n \in WrittenFor(item) :
                          RtBit(rt', n) /\ (svOk => SvBit(sv', n))
           /\ Attaches =>
                  /\ \A n \in GrantedEntities :
                         RtBit(rt', n) /\ (svOk => SvBit(sv', n))
                  /\ pc["poll"] # "block" ]_vars
    /\ [](is_connected(dolphin).ret =>
              \A n \in GrantedEntities : is_item_unlocked(dolphin, Mem, n).ret)

\* a kart and a Mirror cup are granted, the poll loop stands right after its
\* connection step with the session attached, the granted bits are set in the
\* runtime mirror, and the persisted mirror, unmapped, still lacks the cup's
C22_Witness ==
    /\ "B. Dasher Mk 2" \in unlocked_karts
    /\ "Star Cup Mirror" \in unlocked_cups
    /\ is_connected(dolphin).ret
    /\ pc["poll"] = "probe"
    /\ RtBit(rt, "B. Dasher Mk 2")
    /\ RtBit(rt, "Mirror mode")
    /\ ~svOk
    /\ ~SvBit(sv, "Star Cup Mirror")

\* the confirmed ids that name a cup, a class and a tier
SeededIds == { id \in checked_locations : ParseLocation(TRUE, id) # <<>> }

\* C23: a "Connected" step leaves, for every confirmed cup-tier id, the
\* completion entry of its cup and class at that tier or above; and no step
\* puts a confirmed id in a batch of new locations or sends it, whatever the
\* device holds.
C23_SessionSeeding ==
    [][ /\ (\E sd \in Configs : OnConnected(sd)) =>
               \A id \in SeededIds :
                   TierIdx(completed_locations'[<<ParseLocation(TRUE, id)[1],
                                                  ParseLocation(TRUE, id)[2]>>])
                       >= TierIdx(ParseLocation(TRUE, id)[3])
        /\ \A id \in checked_locations :
               /\ Count(sent_checks', id) = Count(sent_checks, id)
               /\ \A t \in Tasks :
                      id \notin Range(new_locations'[t]) \ Range(new_locations[t])
      ]_vars

\* the 1-star id of the Mushroom Cup on 150cc is confirmed and seeded and was
\* never sent; the device holds the gold 1-star result of that cup and class,
\* and the poll loop has scanned it and sends the three trophy tiers only
C23_Witness ==
    /\ ExternalIds \subseteq checked_locations
    /\ completed_locations[<<"Mushroom Cup", "150cc">>] = "1_star"
    /\ \A id \in ExternalIds : Count(sent_checks, id) = 0
    /\ is_connected(dolphin).ret
    /\ "1_star" \in Range(tiers_from_result(
                              get_gp_result(dolphin, Mem, 0, "150cc").ret[1],
                              get_gp_result(dolphin, Mem, 0, "150cc").ret[2]))
    /\ pc["poll"] = "sending"
    /\ Len(new_locations["poll"]) = 3
    /\ ExternalIds \cap Range(new_locations["poll"]) = {}

\* the lines of a file without their line breaks
LinesOf(content) ==
    [i \in DOMAIN readlines(content, 1, <<>>) |->
        SelectSeq(readlines(content, 1, <<>>)[i], LAMBDA a : a # NL)]

\* a occurs in b, in order
RECURSIVE IsSubsequence(_, _)
IsSubsequence(a, b) ==
    \/ a = <<>>
    \/ /\ b # <<>>
       /\ IF Head(a) = Head(b) THEN IsSubsequence(Tail(a), Tail(b))
          ELSE IsSubsequence(a, Tail(b))

\* the lines inject_gecko_codes may add
InjectedLines ==
    { <<"[Gecko]">>, <<"[Gecko_Enabled]">> }
        \cup { <<"$" \o GECKO_CODES[i][1]>> : i \in DOMAIN GECKO_CODES }
        \cup { <<"$" \o base_name[GECKO_CODES[i][1]]>> : i \in DOMAIN GECKO_CODES }
        \cup UNION { { <<l>> : l \in Range(GECKO_CODES[i][2]) } : i \in DOMAIN GECKO_CODES }

\* the file holds, for every required code, a definition in [Gecko] and an
\* entry in [Gecko_Enabled]
NothingMissing(content) ==
    \A k \in DOMAIN GECKO_CODES :
        \A h \in {"[Gecko]", "[Gecko_Enabled]"} :
            \E i, j \in DOMAIN LinesOf(content) :
                /\ i < j
                /\ strip(LinesOf(content)[i]) = <<h>>
                /\ is_code_name(LinesOf(content)[j])
                /\ code_base(LinesOf(content)[j]) = base_name[GECKO_CODES[k][1]]
                /\ \A m \in (i + 1) .. j :
                       ~is_section_header(strip(LinesOf(content)[m]))

\* C24: after inject_gecko_codes every line of the INI before the call is in
\* the INI, unchanged and in the same order; every other line of the INI is a
\* section header, definition line or enabled line of the required codes; and
\* a file in which nothing is missing is not written.
C24_NonDestructive ==
    call.op = "inject_gecko_codes" =>
        /\ IsSubsequence(LinesOf(call.before), LinesOf(call.after))
        /\ \A l \in Range(LinesOf(call.after)) :
               l \in Range(LinesOf(call.before)) \cup InjectedLines
        /\ (call.existed /\ NothingMissing(call.before)) => ~call.written

\* the INI ended in a line without a line break, the call wrote the file, and
\* that line is no longer a line of the file
C24_Witness ==
    /\ call.op = "inject_gecko_codes"
    /\ call.written
    /\ call.before # <<>>
    /\ call.before[Len(call.before)] # NL
    /\ LinesOf(call.before)[Len(LinesOf(call.before))] \notin Range(LinesOf(call.after))

\* C25: a cycle of the poll loop gets from its connection step to the result
\* scan only through the probe, and only when the 8-byte read succeeds, and to
\* the drift correction only through the scan; a failed probe leaves the
\* manager detached with its pointers cleared and the loop at its sleep,
\* with no memory written, nothing scanned and nothing sent; and a cycle that
\* finds the manager detached gets to the probe only through a resolve.
C25_LivenessProbe ==
    [][ /\ (pc["poll"] = "connect" /\ pc'["poll"] # "connect") =>
               pc'["poll"] \in {"probe", "sleep"}
        /\ (pc'["poll"] = "scan" /\ pc["poll"] # "scan") =>
               (pc["poll"] = "probe" /\ ~read_all_unlock_bytes_raises(dolphin))
        /\ (pc'["poll"] = "block" /\ pc["poll"] # "block") =>
               pc["poll"] \in {"scan", "cleanup", "goal_sending"}
        /\ ProbeReadFails =>
               /\ ~dolphin'.hooked
               /\ LayoutCleared(dolphin')
               /\ ~dme_hooked'
               /\ pc'["poll"] = "sleep"
               /\ running' = "none"
               /\ UNCHANGED <<rt, sv, locVars, new_locations, outVars>>
        /\ (pc["poll"] = "connect" /\ pc'["poll"] = "probe"
                /\ ~is_connected(dolphin).ret) =>
               /\ hook(is_connected(dolphin).d, boot, dme_hooked).ret
               /\ LayoutWhole(dolphin')
      ]_vars

\* the cycle has passed is_connected with a whole layout, the session is
\* established, and the runtime unlock bytes have gone before the probe reads
\* them
C25_Witness ==
    /\ pc["poll"] = "probe"
    /\ running = "poll"
    /\ slot_data.present
    /\ dolphin.hooked
    /\ LayoutWhole(dolphin)
    /\ dme_hooked
    /\ read_all_unlock_bytes_raises(dolphin)

\* the poll task exists and is not cancelled, the flag is clear, and the four
\* stages of the resolver pass
ReadyToAttach ==
    /\ memory_poll_task
    /\ pc["poll"] # "done"
    /\ ~loading_state
    /\ rtOk
    /\ hook(Unhooked, boot, dme_hooked).ret

\* C26: a cycle that finds the manager detached with the four stages passing
\* attaches it; and when from some point on the stages pass and the loop is
\* not suspended, the loop gets to an attached cycle again and again.
C26_UnboundedRetry ==
    /\ [][ (pc["poll"] = "connect" /\ pc'["poll"] # "connect"
                /\ ~is_connected(dolphin).ret
                /\ hook(is_connected(dolphin).d, boot, dme_hooked).ret) =>
               dolphin'.hooked ]_vars
    /\ (<>[]ReadyToAttach) => []<>(dolphin.hooked /\ pc["poll"] = "probe")

\* a cycle has ended in the AttributeError of hook() with the game booted and
\* its memory mapped: the loop is back at its sleep and nothing is attached
C26_Witness ==
    /\ call.op = "hook"
    /\ call.task = "poll"
    /\ pc["poll"] = "sleep"
    /\ ReadyToAttach
    /\ boot = Booted
    /\ ~dolphin.hooked
    /\ ~dme_hooked

\* C27: _force_rehook counts its passes from 0 and never beyond
\* HOOK_ATTEMPTS - 1, one hook attempt per pass; a failed attempt leads to the
\* 1 s sleep, and the sleep after the last pass ends the operation with the
\* flag cleared, the manager as the attempt left it and the poll loop where it
\* was; and every /hook ends.
C27_BoundedRehook ==
    /\ [](attempt \in 0 .. (HOOK_ATTEMPTS - 1))
    /\ [][ /\ attempt' # attempt => (attempt' = attempt + 1 \/ attempt' = 0)
           /\ (pc["rehook"] = "attempt" /\ pc'["rehook"] # "attempt") =>
                  /\ pc'["rehook"] \in {"wait", "idle"}
                  /\ pc'["rehook"] = "wait" => (loading_state' /\ attempt' = attempt)
                  /\ pc'["rehook"] = "idle" => ~loading_state'
           /\ (pc["rehook"] = "wait" /\ pc'["rehook"] # "wait") =>
                  IF attempt + 1 < HOOK_ATTEMPTS
                  THEN pc'["rehook"] = "attempt" /\ attempt' = attempt + 1
                  ELSE /\ pc'["rehook"] = "idle"
                       /\ ~loading_state'
                       /\ dolphin' = dolphin
                       /\ pc'["poll"] = pc["poll"] ]_vars
    /\ (pc["rehook"] # "idle") ~> (pc["rehook"] = "idle")

\* the last of the HOOK_ATTEMPTS passes has failed: the operation sleeps for
\* the last time with the flag set and nothing attached
C27_Witness ==
    /\ pc["rehook"] = "wait"
    /\ attempt = HOOK_ATTEMPTS - 1
    /\ loading_state
    /\ ~dolphin.hooked

\* C28: lock_all_unlocks with the runtime bytes writable does not raise and
\* leaves all UNLOCK_BYTE_COUNT runtime bytes zero, whether or not the rksys
\* bytes can be written; the rksys bytes are all zero when they can be
\* written and as they were when they cannot.
C28_LockAll ==
    (call.op = "lock_all" /\ rtOk) =>
        /\ ~call.raised
        /\ \A i \in DOMAIN rt : rt[i] = 0
        /\ Cardinality(DOMAIN rt) = UNLOCK_BYTE_COUNT
        /\ IF svOk THEN \A o \in DOMAIN sv : sv[o] = 0 ELSE sv = call.sv_before

\* every bit of both mirrors was set and the rksys buffer could not be
\* written: the runtime bytes are zero and the rksys bytes are as they were
C28_Witness ==
    /\ call.op = "lock_all"
    /\ rtOk
    /\ ~svOk
    /\ \A i \in DOMAIN rt : call.rt_before[i] = 255 /\ rt[i] = 0
    /\ \A o \in DOMAIN sv : sv[o] = 255

\* C29: for a name with no entry in ALL_UNLOCK_IDS, unlock_item and lock_item
\* return False, attempt no read and no write and leave both mirrors as they
\* were, and is_item_unlocked returns True and attempts no read; none of them
\* raises, whatever is mapped.
C29_UnmappedAlwaysUnlocked ==
    /\ (call.op = "write_flag" /\ call.entity \notin DOMAIN ALL_UNLOCK_IDS) =>
           /\ ~call.raised
           /\ ~call.changed
           /\ call.accesses = <<>>
           /\ rt = call.rt_before
           /\ sv = call.sv_before
    /\ (call.op = "read_flag" /\ call.entity \notin DOMAIN ALL_UNLOCK_IDS) =>
           /\ ~call.raised
           /\ call.ret
           /\ call.accesses = <<>>
           /\ ~call.write_changed
           /\ call.write_accesses = <<>>
           /\ rt = call.rt_before
           /\ sv = call.sv_before

\* lock_item("Mario") and then is_item_unlocked("Mario") with the runtime
\* bytes unreadable: the name reads unlocked
C29_Witness ==
    /\ call.op = "read_flag"
    /\ call.entity = "Mario"
    /\ ~call.value
    /\ ~rtOk
    /\ call.ret

\* C30: get_gp_result on an attached manager never raises; an unknown class
\* gives ("none", "D") with no read; a record that cannot be read gives
\* ("none", "D"); and a readable record with bit 7 of the completion byte set
\* gives the trophy of bits 7..6 of the trophy byte (gold, silver, bronze,
\* none) and the rank of the low four bits of the rank byte (3_star, 2_star,
\* 1_star, A, B, C, D, E, F for 0..8, D for 9..15).
C30_DecodeAnomalies ==
    call.op = "decode" =>
        /\ ~call.raised
        /\ call.cc \notin DOMAIN GP_CC_OFFSETS =>
               (call.ret = <<"none", "D">> /\ call.reads = <<>>)
        /\ (call.cc \in DOMAIN GP_CC_OFFSETS /\ ~svOk) => call.ret = <<"none", "D">>
        /\ (/\ call.cc \in DOMAIN GP_CC_OFFSETS
            /\ svOk
            /\ BitSet(gp[<<call.cup_id, call.cc>>][1], 7)) =>
               /\ call.ret[1] =
                      <<"gold", "silver", "bronze", "none">>
                          [((gp[<<call.cup_id, call.cc>>][2] \div 64) % 4) + 1]
               /\ call.ret[2] =
                      IF gp[<<call.cup_id, call.cc>>][3] % 16 <= 8
                      THEN <<"3_star", "2_star", "1_star", "A", "B", "C", "D", "E", "F">>
                               [(gp[<<call.cup_id, call.cc>>][3] % 16) + 1]
                      ELSE "D"

\* a finished record whose trophy byte says bronze with its low bits set and
\* whose rank byte holds 9 under a set high nibble: bronze with rank D
C30_Witness ==
    /\ call.op = "decode"
    /\ call.cup_id = 0
    /\ call.cc = "150cc"
    /\ svOk
    /\ gp[<<0, "150cc">>] = <<255, 191, 249>>
    /\ call.ret = <<"bronze", "D">>
    /\ ~call.raised

\* ------------------------------------------------------------------------
\* Properties of the result scan, the flag records and the unhook
\* ------------------------------------------------------------------------

\* task t leaves the synchronous part of check_locations in this step
ScanStep(t) == pc[t] = "scan" /\ pc'[t] # "scan"

\* C31: a scan calls send_msgs with a LocationChecks message exactly when it
\* added an id to _pending_location_ids; the one message holds exactly the
\* ids the scan added, each once; and no step that is not a scan sends one.
C31_Batching ==
    [][ /\ \A t \in Tasks :
               ScanStep(t) =>
                   /\ pc'[t] = "sending" <=> pending_location_ids' # pending_location_ids
                   /\ Range(new_locations'[t]) = pending_location_ids' \ pending_location_ids
                   /\ Cardinality(Range(new_locations'[t])) = Len(new_locations'[t])
                   /\ sent_checks' = BumpAll(sent_checks, new_locations'[t], 1)
        /\ (\A t \in Tasks : ~ScanStep(t)) => sent_checks' = sent_checks
      ]_vars

\* /check has scanned a gold result and waits in send_msgs with one message
\* of three or more ids, all of them pending and each sent once
C31_Witness ==
    /\ pc["manual"] = "sending"
    /\ Len(new_locations["manual"]) >= 3
    /\ Range(new_locations["manual"]) \subseteq pending_location_ids
    /\ \A id \in Range(new_locations["manual"]) : Count(sent_checks, id) = 1

\* a step of the poll loop, or a step of _force_rehook taken with
\* _loading_state set
OwnerStep ==
    \/ pc'["poll"] # pc["poll"]
    \/ pc'["rehook"] # pc["rehook"] /\ loading_state

\* C32: _hooked and the three pointers change only in a step of the poll loop
\* or of _force_rehook under _loading_state; the is_connected read of the
\* tracker's thread and of /status leaves them as they were, so between the
\* probe of a cycle and its scan and enforcement nothing resets them.
C32_SingleOwner ==
    [][ /\ dolphin' # dolphin => OwnerStep
        /\ (TrackerUpdate \/ CmdStatus) => dolphin' = dolphin
        /\ (pc["poll"] \in {"scan", "cleanup", "block"} /\ ~OwnerStep)
               => dolphin' = dolphin
      ]_vars

\* the poll cycle has passed its probe and holds the event loop before its
\* scan; the runtime byte became unreadable and the tracker's read of
\* is_connected has cleared _hooked and the pointers
C32_Witness ==
    /\ pc["poll"] = "scan"
    /\ running = "poll"
    /\ ~rtOk
    /\ dolphin = Unhooked
    /\ dme_hooked

\* the manager becomes attached in this step, by a pass of _force_rehook or
\* by the poll loop after Dolphin was closed under an attached manager
Reattached ==
    /\ ~dolphin.hooked /\ dolphin'.hooked
    /\ \/ pc["rehook"] = "attempt" /\ running = "rehook"
       \/ call.op = "dolphin_exit" /\ call.hooked

\* the result get_gp_result decodes for key with the manager d
Residual(d, key) == get_gp_result(d, Mem, key[1], key[2]).ret

\* C33: when the manager is attached again after a detach or by a forced
\* re-attach, fake_trophies holds, for every (cup_id, class) whose record
\* decodes to a result, that result as its baseline.
C33_BaselineRecording ==
    [][ Reattached =>
            \A key \in GpKeys :
                Residual(dolphin', key)[1] # "none" =>
                    /\ key \in DOMAIN fake_trophies'
                    /\ fake_trophies'[key] = Residual(dolphin', key)
      ]_vars

\* Dolphin was closed under an attached manager and started again, the poll
\* loop is attached again, cup 0 holds a result on 150cc, no
\* baseline exists, and the scan has put the result's ids in a message
C33_Witness ==
    /\ call.op = "dolphin_exit" /\ call.hooked
    /\ dolphin.hooked
    /\ Residual(dolphin, <<0, "150cc">>)[1] # "none"
    /\ fake_trophies = <<>>
    /\ pc["poll"] = "sending"
    /\ new_locations["poll"] # <<>>

\* the device holds, for the cup and class of loc, a genuine result whose
\* tier sequence contains the tier of loc
HoldsResultFor(d, loc) ==
    LET res == get_gp_result(d, Mem, CUP_TROPHY_IDS[loc[1]], loc[2]).ret
    IN  /\ is_real_result(fake_trophies, CUP_TROPHY_IDS[loc[1]], loc[2], res[1], res[2]).ret
        /\ loc[3] \in Range(tiers_from_result(res[1], res[2]))

\* C34: after a scan of the attached poll loop, every cup location that
\* create_regions made for the slot's options (the goal tier on the goal
\* class included) and whose tier the device's result reaches is confirmed
\* or has been put in a LocationChecks message.
C34_WorldClientAgreement ==
    [][ \A o \in WorldOptions :
            (/\ slot_data \in fill_slot_data(o)
             /\ ScanStep("poll")
             /\ dolphin'.hooked) =>
                \A loc \in create_regions(o) :
                    HoldsResultFor(dolphin', loc) =>
                        location_table[loc] \in pending_location_ids' \cup checked_locations'
      ]_vars

\* goal tier 1st_place on 150cc, enabled tiers 3rd and 2nd place: a cycle has
\* ended attached, Mushroom Cup holds a gold result on 150cc, and the
\* location the world made for 1st place was never put in a message
C34_Witness ==
    /\ slot_data \in fill_slot_data(GoalTierUnlisted)
    /\ pc["poll"] = "block"
    /\ dolphin.hooked
    /\ <<"Mushroom Cup", "150cc", "1st_place">> \in create_regions(GoalTierUnlisted)
    /\ HoldsResultFor(dolphin, <<"Mushroom Cup", "150cc", "1st_place">>)
    /\ location_table[<<"Mushroom Cup", "150cc", "1st_place">>]
           \notin pending_location_ids \cup checked_locations
    /\ Count(sent_checks, location_table[<<"Mushroom Cup", "150cc", "2nd_place">>]) = 1

\* the index of the goal tier: goal_difficulty, at most the last index
TargetIdx ==
    IF slot_data.goal_difficulty < Len(TIER_HIERARCHY) - 1
    THEN slot_data.goal_difficulty ELSE Len(TIER_HIERARCHY) - 1

\* the cups whose stored tier on the goal class is at or above the goal tier
CupsAtTarget ==
    { cup \in Range(CUPS) :
        TierIdx(completed_locations[<<cup, CC_NAMES[slot_data.goal_cc + 1]>>]) >= TargetIdx }

\* C35: the count _check_goal compares with cups_required_for_goal is the
\* number of cups whose stored tier on the goal class has an index at or
\* above the goal tier's; the progression test excludes none of them, and
\* the goal is signalled exactly when that number reaches the required one.
C35_GoalCount ==
    call.op = "check_goal" =>
        /\ call.count = Cardinality(CupsAtTarget)
        /\ \A cup \in CupsAtTarget :
               valid_progression(completed_locations, cup, CC_NAMES[slot_data.goal_cc + 1])
        /\ call.sent <=> Cardinality(CupsAtTarget) >= slot_data.cups_required_for_goal

\* goal tier 1_star, two cups required: Mushroom Cup stands at 3_star and
\* Flower Cup at 1_star with no lower tier stored, Star Cup at 1st_place;
\* the count is 2 and the goal is signalled
C35_Witness ==
    /\ call.op = "check_goal"
    /\ slot_data.goal_difficulty = 3
    /\ slot_data.cups_required_for_goal = 2
    /\ completed_locations[<<"Mushroom Cup", "150cc">>] = "3_star"
    /\ completed_locations[<<"Flower Cup", "150cc">>] = "1_star"
    /\ completed_locations[<<"Star Cup", "150cc">>] = "1st_place"
    /\ call.count = 2
    /\ goal_reached

\* C36: a scan changes the stored tier of a cup and class only to a tier
\* whose id it put in its batch, and only upwards; a scan with an empty
\* batch (every decoded tier unmonitored, without an id, confirmed or
\* pending) leaves completed_locations as it was.
C36_MapChangesOnEmission ==
    [][ \A t \in Tasks :
            ScanStep(t) =>
                /\ \A k \in CompletionKeys :
                       completed_locations'[k] # completed_locations[k] =>
                           /\ <<k[1], k[2], completed_locations'[k]>> \in DOMAIN location_table
                           /\ location_table[<<k[1], k[2], completed_locations'[k]>>]
                                  \in Range(new_locations'[t])
                           /\ TierIdx(completed_locations'[k]) > TierIdx(completed_locations[k])
                /\ new_locations'[t] = <<>> => completed_locations' = completed_locations
      ]_vars

\* the device holds gold with one star for Mushroom Cup on 150cc and the
\* server had confirmed the 1-star location on its own: the poll loop's scan
\* sent the three lower tiers and the map stands at 1st_place
C36_Witness ==
    /\ pc["poll"] = "sending"
    /\ location_table[<<"Mushroom Cup", "150cc", "1_star">>] \in checked_locations
    /\ location_table[<<"Mushroom Cup", "150cc", "1_star">>] \notin Range(new_locations["poll"])
    /\ location_table[<<"Mushroom Cup", "150cc", "1st_place">>] \in Range(new_locations["poll"])
    /\ completed_locations[<<"Mushroom Cup", "150cc">>] = "1st_place"
    /\ gp[<<0, "150cc">>] = ResultPool[1]

\* every bit of the two unlock regions other than bit `bit` of the byte at
\* offset `off` is as it was before the call
OtherBitsKept(off, bit) ==
    /\ \A i \in DOMAIN rt, b \in 0 .. 7 :
           <<i + SAVE_UNLOCK_START, b>> # <<off, bit>> =>
               (BitSet(rt[i], b) <=> BitSet(call.rt_before[i], b))
    /\ \A o \in DOMAIN sv, b \in 0 .. 7 :
           <<o, b>> # <<off, bit>> =>
               (BitSet(sv[o], b) <=> BitSet(call.sv_before[o], b))

\* C37: unlock_item / lock_item of a mapped entity leaves every bit of both
\* unlock regions but the entity's own as it was, whether or not an access
\* fails; when both bytes are accessible the entity's bit is the written
\* value in both; a name without a record changes nothing.
C37_SingleBitFrame ==
    call.op = "write_flag" =>
        IF call.entity \in DOMAIN ALL_UNLOCK_IDS
        THEN /\ OtherBitsKept(ALL_UNLOCK_IDS[call.entity][1], ALL_UNLOCK_IDS[call.entity][2])
             /\ (rtOk /\ svOk) =>
                    /\ RtBit(rt, call.entity) = call.value
                    /\ SvBit(sv, call.entity) = call.value
        ELSE rt = call.rt_before /\ sv = call.sv_before

\* lock_item on King Boo with both bytes accessible and the two mirrors
\* disagreeing beforehand on bits of the same byte: King Boo's bit is clear
\* in both, and the other bits set before are still set
C37_Witness ==
    /\ call.op = "write_flag"
    /\ call.entity = "King Boo"
    /\ ~call.value
    /\ rtOk /\ svOk
    /\ ~RtBit(rt, "King Boo") /\ ~SvBit(sv, "King Boo")
    /\ RtBit(call.rt_before, "King Boo")
    /\ RtByteOf(rt, "King Boo") # 0
    /\ SvByteOf(sv, "King Boo") # RtByteOf(rt, "King Boo")

\* the four tables share no name, so the merged table has each record as its
\* table gives it
TablesDisjoint ==
    \A a, b \in {CHARACTER_IDS, VEHICLE_IDS, CUP_UNLOCK_IDS, MODE_IDS} :
        a # b => DOMAIN a \cap DOMAIN b = {}

\* C38: every record of ALL_UNLOCK_IDS has its byte offset in the 8 bytes
\* from SAVE_UNLOCK_START and its bit in 0..7; two names with the same record
\* are spellings of one vehicle (one alias group); and unlock_item /
\* lock_item of an entity leaves the bit of every entity that is not a
\* spelling of it as it was, in both mirrors.
C38_UnlockMapWellFormed ==
    /\ TablesDisjoint
    /\ \A n \in DOMAIN ALL_UNLOCK_IDS :
           /\ ALL_UNLOCK_IDS[n][1] \in
                  SAVE_UNLOCK_START .. (SAVE_UNLOCK_START + UNLOCK_BYTE_COUNT - 1)
           /\ ALL_UNLOCK_IDS[n][2] \in 0 .. 7
    /\ \A n, m \in DOMAIN ALL_UNLOCK_IDS :
           (n # m /\ ALL_UNLOCK_IDS[n] = ALL_UNLOCK_IDS[m]) =>
               (n \in DOMAIN VEHICLE_IDS /\ m \in get_vehicle_alternates(n))
    /\ call.op = "write_flag" =>
           \A m \in DOMAIN ALL_UNLOCK_IDS :
               m \notin get_vehicle_alternates(call.entity) =>
                   /\ RtBit(rt, m) = RtBit(call.rt_before, m)
                   /\ SvBit(sv, m) = SvBit(call.sv_before, m)

\* unlock_item on "B. Dasher Mk 2" with every bit clear beforehand: its bit
\* and that of its other spelling are set in both mirrors, and King Boo's
\* is still clear
C38_Witness ==
    /\ call.op = "write_flag"
    /\ call.entity = "B. Dasher Mk 2"
    /\ call.value
    /\ ~RtBit(call.rt_before, "B. Dasher Mk 2")
    /\ RtBit(rt, "B. Dasher Mk 2") /\ RtBit(rt, "B Dasher Mk 2")
    /\ SvBit(sv, "B. Dasher Mk 2") /\ SvBit(sv, "B Dasher Mk 2")
    /\ ~RtBit(rt, "King Boo") /\ ~SvBit(sv, "King Boo")

\* C39: an id leaves _pending_location_ids only in a step at which it is in
\* checked_locations; an id that is pending (its message sent, failed or
\* never confirmed) is in no batch of a later scan and in no second message.
C39_PendingReleasedByConfirmation ==
    [][ /\ \A id \in pending_location_ids \ pending_location_ids' :
               id \in checked_locations
        /\ \A t \in Tasks :
               ScanStep(t) => Range(new_locations'[t]) \cap pending_location_ids = {}
        /\ \A id \in pending_location_ids :
               Count(sent_checks', id) = Count(sent_checks, id)
      ]_vars

\* the poll loop's send of a batch raised, the server has confirmed nothing,
\* and a /check scan of the same results has found nothing to send: the ids
\* of the failed batch are still pending
C39_Witness ==
    /\ call.op = "send_msgs" /\ call.raised /\ call.task = "poll"
    /\ call.locations # <<>>
    /\ Range(call.locations) \subseteq pending_location_ids
    /\ checked_locations = {}
    /\ pc["manual"] = "cleanup"
    /\ new_locations["manual"] = <<>>

\* the step at which the resolve of task t stores its pointers and marks the
\* manager attached
Stores(t) ==
    /\ resolving[t].at = "compare"
    /\ resolving[t].magic = "RKSD"
    /\ resolving'[t].at = "none"

\* C40: a resolve that was suspended at one of its sleeps when unhook() ran
\* does not store its pointers and mark the manager attached, and the manager
\* goes from detached to attached only at the storing step of a resolve.
C40_NoReattachAcrossUnhook ==
    [][ /\ \A t \in DOMAIN resolving : Stores(t) => ~resolving[t].unhooked
        /\ (~dolphin.hooked /\ dolphin'.hooked)
               => \E t \in DOMAIN resolving : Stores(t)
      ]_vars

\* the poll loop's hook() has returned True from a resolve that was suspended
\* when /hook unhooked the manager: the manager is attached with the pointers
\* that resolve had read, while the re-hook task has not made its first pass
C40_Witness ==
    /\ call.op = "hook" /\ call.task = "poll" /\ call.ret /\ call.unhooked
    /\ dolphin.hooked
    /\ dolphin.manager_ptr = DevMgrPtr
    /\ pc["rehook"] \in {"start", "focus", "attempt"}
    /\ resolving["rehook"].at = "none"
====
